---------------------------- MODULE Spec2Model ----------------------------
(***************************************************************************)
(* PhishLense backend: the Threat lifecycle (ThreatViewSet, ThreatAnalyzer, *)
(* SandboxExecutor), the sandbox run of a TrafficEvent, the parsers of the *)
(* model's reply and the cache-backed RateLimiter.                         *)
(*                                                                         *)
(* Requests are served by worker processes.  Every database write, every   *)
(* cache access and every call to an external collaborator is one step of  *)
(* the process that serves the request; in-memory work is folded into the  *)
(* step that follows it.  A process holds its own in-memory copy of the    *)
(* Threat row (obj), and Model.save() writes every field of that copy.     *)
(***************************************************************************)
EXTENDS Integers, Sequences, FiniteSets, TLC

VARIABLES
    event,      \* the TrafficEvent row
    threat,     \* the Threat row in the database
    timeline,   \* ThreatTimeline rows of the threat, in insertion order
    pc,         \* position of each worker process in its request
    op,         \* the request a process serves (or last served)
    obj,        \* the in-memory Threat instance of each process
    results,    \* the local `results` dict of SandboxExecutor.execute
    resp,       \* HTTP status of the last response of each process
    sandbox,    \* execute_in_sandbox of the create request a process serves
    net,        \* number of probes that issued network requests
    nreq,       \* number of requests accepted so far
    now,        \* the clock of the cache, in time units
    cache,      \* the Django cache: the rate-limit entry of each key
    rpc,        \* position of each caller in RateLimiter.is_allowed
    rkey,       \* cache_key of the call in progress
    current,    \* the local `current` of the call in progress
    seen,       \* what the last get_remaining returned, and for which key
    window,     \* per key: when the live entry was created, the calls
                \* admitted since, and whether none of them overlapped
    last,       \* the last is_allowed that returned, and what it returned
    ncalls,     \* number of is_allowed calls made so far
    analysis_text, \* the reply of the model that is being parsed
    path,       \* the analysis that parsed it: "none" before
    surfaced,   \* what that analysis returned
    media,      \* the MediaAnalysis records, in the order of their creation
    mresp,      \* the last response of MediaAnalysisViewSet.create
    nmedia,     \* number of media requests made so far
    transitions, \* number of status transitions of the threat, its creation included
    probe       \* a run of SandboxExecutor._execute_url: its inputs and outcome

lifeVars == <<threat, timeline, pc, op, obj, results, resp, sandbox, net, nreq, event, transitions>>

rateVars == <<now, cache, rpc, rkey, current, seen, window, last, ncalls>>

parseVars == <<analysis_text, path, surfaced>>

mediaVars == <<media, mresp, nmedia>>

vars == <<lifeVars, rateVars, parseVars, mediaVars, probe>>

Procs == {"w1", "w2"}

\* Number of requests the workers accept in one behaviour.
MaxRequests == 3

-----------------------------------------------------------------------------
(* Strings.  TLC evaluates Len, \o and SubSeq on strings.                  *)

Char(s, i) == SubSeq(s, i, i)

StartsWith(s, prefix) ==
    Len(s) >= Len(prefix) /\ SubSeq(s, 1, Len(prefix)) = prefix

Contains(s, sub) ==
    \E i \in 1..(Len(s) - Len(sub) + 1) : SubSeq(s, i, i + Len(sub) - 1) = sub

UpperChars == "ABCDEFGHIJKLMNOPQRSTUVWXYZ"
LowerChars == "abcdefghijklmnopqrstuvwxyz"

LowerChar(c) ==
    IF \E i \in 1..Len(UpperChars) : Char(UpperChars, i) = c
    THEN Char(LowerChars, CHOOSE i \in 1..Len(UpperChars) : Char(UpperChars, i) = c)
    ELSE c

RECURSIVE Lower(_)
Lower(s) == IF s = "" THEN "" ELSE LowerChar(Char(s, 1)) \o Lower(SubSeq(s, 2, Len(s)))

IsSpace(c) == c \in {" ", "\t", "\n", "\r"}

RECURSIVE LStrip(_)
LStrip(s) == IF s # "" /\ IsSpace(Char(s, 1)) THEN LStrip(SubSeq(s, 2, Len(s))) ELSE s

RECURSIVE RStrip(_)
RStrip(s) ==
    IF s # "" /\ IsSpace(Char(s, Len(s))) THEN RStrip(SubSeq(s, 1, Len(s) - 1)) ELSE s

Strip(s) == LStrip(RStrip(s))

-----------------------------------------------------------------------------
(* models.py                                                               *)

ThreatType == {"email", "url", "text", "link"}

ThreatStatus == {"pending", "analyzing", "executing", "completed", "error"}

ThreatSeverity == {"low", "medium", "high", "critical"}

\* A nullable column holds <<>> (NULL) or <<v>>; a regex match object is
\* <<>> (None) or <<group 1>>.
None == <<>>
Some(v) == <<v>>

-----------------------------------------------------------------------------
(* The model's reply.  analysis_text is represented by what the parsers of *)
(* the code find in it: whether re.search(r'\{.*\}') matches and           *)
(* json.loads accepts the match, the values of the keys of that object,    *)
(* group 1 of the regexes that look for a number or a severity, and the   *)
(* prose in which the keyword searches look.  A JSON value is absent,      *)
(* null, a number (n), a string (s) or a boolean (n = 1 for true).         *)
(*   json            "none": no {...} span; "invalid": json.loads raises;  *)
(*                   "object": the span parses                             *)
(*   risk_score, severity, is_threat   the keys of the object              *)
(*   risk_match      risk[_\s]?score[:\s]+(\d+)                            *)
(*   severity_match  severity[:\s]+(LOW|MEDIUM|HIGH|CRITICAL)              *)
(*   near            [:\s\*\*]+(\d+) in the 50 characters after the first  *)
(*                   risk.*?score                                          *)
(*   score_pat       score[:\s\*\*]+(\d+)                                  *)
(*   risk100_pat     risk[:\s]+(\d+)/100                                   *)
(*   level_pat       risk.*?level[:\s]+(\d+)                               *)

Absent == [t |-> "absent", n |-> 0, s |-> ""]
JNull == [t |-> "null", n |-> 0, s |-> ""]
JNum(n) == [t |-> "num", n |-> n, s |-> ""]
JStr(s) == [t |-> "str", n |-> 0, s |-> s]
JBool(b) == [t |-> "bool", n |-> IF b THEN 1 ELSE 0, s |-> ""]

Digits == "0123456789"

IsDigit(c) == \E i \in 1..Len(Digits) : Char(Digits, i) = c

DigitVal(c) == (CHOOSE i \in 1..Len(Digits) : Char(Digits, i) = c) - 1

IsNumeral(s) == s # "" /\ \A i \in 1..Len(s) : IsDigit(Char(s, i))

RECURSIVE ToInt(_)
ToInt(s) == IF s = "" THEN 0 ELSE 10 * ToInt(SubSeq(s, 1, Len(s) - 1)) + DigitVal(Char(s, Len(s)))

\* float(str): surrounding whitespace and one leading sign are accepted.
HasSign(s) == s # "" /\ Char(s, 1) \in {"-", "+"}

Unsigned(s) == IF HasSign(s) THEN SubSeq(s, 2, Len(s)) ELSE s

\* float(x) raises TypeError on None and ValueError on a non-numeric string.
FloatRaises(j) == j.t = "null" \/ (j.t = "str" /\ ~IsNumeral(Unsigned(Strip(j.s))))

Float(j) ==
    IF j.t = "num" THEN j.n
    ELSE IF StartsWith(Strip(j.s), "-") THEN 0 - ToInt(Unsigned(Strip(j.s)))
    ELSE ToInt(Unsigned(Strip(j.s)))

\* dict.get(key, default)
Get(j, default) == IF j.t = "absent" THEN default ELSE j

\* ThreatAnalyzer._parse_analysis, lines 139-152: the regex fallback.
ParseFallback(text) ==
    [risk_score |-> IF text.risk_match # None THEN ToInt(text.risk_match[1]) ELSE 50,
     severity   |-> IF text.severity_match # None THEN Lower(text.severity_match[1])
                    ELSE "medium"]

\* ThreatAnalyzer._parse_analysis, lines 126-135: the JSON path.  Any
\* exception (json.loads, float(), .lower() of a non-string) is swallowed by
\* the bare except and the fallback runs.
JsonPathRaises(text) ==
    \/ text.json = "invalid"
    \/ FloatRaises(Get(text.risk_score, JNum(50)))
    \/ Get(text.severity, JStr("MEDIUM")).t # "str"

_parse_analysis(text) ==
    IF text.json # "none" /\ ~JsonPathRaises(text)
    THEN [risk_score |-> Float(Get(text.risk_score, JNum(50))),
          severity   |-> Lower(Get(text.severity, JStr("MEDIUM")).s)]
    ELSE ParseFallback(text)

-----------------------------------------------------------------------------
(* OpenAIMediaAnalyzer: the parsers of the reply.                          *)

InRange(score) == 0 <= score /\ score <= 100

\* OpenAIMediaAnalyzer._parse_text_response: the risk_score key of the dict
\* it returns.  The parsed object is returned as it is; without one the key
\* is set from the number near "risk ... score" when that is in 0..100.
ParsedRiskScore(reply) ==
    IF reply.json = "object" THEN reply.risk_score
    ELSE IF reply.near # None /\ InRange(ToInt(reply.near[1])) THEN JNum(ToInt(reply.near[1]))
    ELSE Absent

\* The is_threat key of that dict.
ParsedIsThreat(reply) == IF reply.json = "object" THEN reply.is_threat ELSE Absent

RECURSIVE FirstInRange(_)
\* The loop over the fallback patterns of _extract_risk_score, lines 500-509.
FirstInRange(matches) ==
    IF matches = <<>> THEN None
    ELSE IF Head(matches) # None /\ InRange(ToInt(Head(matches)[1]))
         THEN Some(ToInt(Head(matches)[1]))
    ELSE FirstInRange(Tail(matches))

\* OpenAIMediaAnalyzer._extract_risk_score
_extract_risk_score(reply) ==
    FirstInRange(<<reply.near, reply.score_pat, reply.risk100_pat, reply.level_pat>>)

threat_indicators ==
    {"threat", "malicious", "phishing", "suspicious", "attack", "vulnerability",
     "dangerous", "compromised", "fraudulent"}

safe_indicators == {"no threat", "no security", "appears safe", "legitimate", "benign"}

\* The count of the threat keywords alone.
_detect_threat_by_count(prose) ==
    Cardinality({pattern \in threat_indicators : Contains(Lower(prose), pattern)}) >= 2

\* OpenAIMediaAnalyzer._detect_threat_in_text
_detect_threat_in_text(prose) ==
    LET text_lower == Lower(prose) IN
    IF \E pattern \in safe_indicators : Contains(text_lower, pattern) THEN FALSE
    ELSE Cardinality({pattern \in threat_indicators : Contains(text_lower, pattern)}) >= 2

\* int(x) raises ValueError on a string that is no numeral.
IntRaises(j) == j.t = "str" /\ ~IsNumeral(Unsigned(Strip(j.s)))

IntOf(j) == IF j.t \in {"num", "bool"} THEN j.n ELSE Float(j)

\* max(0, min(100, score))
Clamp(score) == IF score < 0 THEN 0 ELSE IF score > 100 THEN 100 ELSE score

\* Python truth of a JSON value.
Truthy(j) ==
    \/ j.t = "bool" /\ j.n = 1
    \/ j.t = "num" /\ j.n # 0
    \/ j.t = "str" /\ j.s # ""

\* The result dict of an analysis: the keys the view reads.
Result(success, risk_score, is_threat, error) ==
    [success |-> success, risk_score |-> risk_score, is_threat |-> is_threat, error |-> error]

\* OpenAIMediaAnalyzer._analyze_text, lines 163-182: risk_score is
\* data.get('risk_score', 50) and is_threat is data.get('is_threat', False),
\* whatever the values are.
_analyze_text(reply) ==
    Result(TRUE, Get(ParsedRiskScore(reply), JNum(50)),
           Get(ParsedIsThreat(reply), JBool(FALSE)), "")

\* The text the heuristics of _analyze_image read, lines 316-320: the whole
\* reply, the prose and the object with its keys.
AnalysisText(reply) ==
    IF reply.json = "object" /\ reply.is_threat.t # "absent"
    THEN reply.prose \o " {is_threat}"
    ELSE reply.prose

\* OpenAIMediaAnalyzer._analyze_image, lines 308-359, and the except of
\* analyze, lines 108-117, that catches what int() raises.
_analyze_image(reply) ==
    LET data_risk == ParsedRiskScore(reply)
        extracted_risk_score == _extract_risk_score(reply)
        is_threat == _detect_threat_in_text(AnalysisText(reply))
        final_is_threat ==
            IF Truthy(Get(ParsedIsThreat(reply), JBool(FALSE)))
            THEN Get(ParsedIsThreat(reply), JBool(FALSE))
            ELSE JBool(is_threat)
    IN IF data_risk.t \notin {"absent", "null"}
       THEN IF IntRaises(data_risk)
            THEN Result(FALSE, Absent, Absent, "Analysis error")
            ELSE Result(TRUE, JNum(Clamp(IntOf(data_risk))), final_is_threat, "")
       ELSE IF extracted_risk_score # None
            THEN Result(TRUE, JNum(Clamp(extracted_risk_score[1])), final_is_threat, "")
       ELSE Result(TRUE, JNum(Clamp(IF is_threat THEN 75 ELSE 25)), final_is_threat, "")

-----------------------------------------------------------------------------
(* SandboxExecutor: the probe.  `fetch` is what the network does with the  *)
(* request for the page: "html", "other" (a non-HTML reply), "timeout",    *)
(* "dns", "refused", "error".                                              *)

Fetch == {"html", "other", "timeout", "dns", "refused", "error"}

EmptyResults ==
    [success |-> FALSE, actions_taken |-> <<>>, observations |-> <<>>, redirects |-> <<>>,
     forms_found |-> <<>>, errors |-> <<>>]

HasHttpScheme(url) == StartsWith(url, "http://") \/ StartsWith(url, "https://")

\* SandboxExecutor._execute_url, lines 220-239: the URL the probe requests,
\* or None when the content is rejected.
NormalizeUrl(content) ==
    LET url == Strip(content) IN
    IF HasHttpScheme(url) THEN Some(url)
    ELSE IF StartsWith(url, "www.") THEN Some("http://" \o url)
    ELSE IF ~Contains(url, "://")
         THEN IF Contains(url, ".") /\ ~StartsWith(url, "/")
              THEN Some("http://" \o url)
              ELSE None
    ELSE Some(url)

\* requests.get refuses a URL whose scheme it has no adapter for
\* (InvalidSchema, a RequestException) before it opens a connection.
Reaches(url, fetch) == IF HasHttpScheme(url) THEN fetch ELSE "error"

\* settings.SANDBOX_MAX_REDIRECTS
max_redirects == 2

\* What the network does with the requests of one probe: the first `hops`
\* GETs are answered by a 3xx with a Location, the next one has the fate
\* `final`, and a page that is HTML carries `forms` and has the visible
\* text `text` (what soup.get_text() returns).  The Location of the 3xx
\* answers is an absolute URL of the host that is asked next, or, with
\* `relative`, a path on the host that answered.
Server(hops, final, forms) ==
    [hops |-> hops, final |-> final, forms |-> forms, text |-> "", relative |-> FALSE]

\* The URLs of one probe: the page after n redirects ("page"), the action
\* of form number n ("action") and what the submission of form number n
\* redirects to, on another host ("other").
Url(site, n) == [site |-> site, n |-> n]

\* An entry with the two URLs in each other's place.
RedirectSwapped(from, to, reason) == [from |-> to, to |-> from, reason |-> reason]

\* An entry of results['redirects'].
Redirect(from, to, reason) == [from |-> from, to |-> to, reason |-> reason]

\* urlparse(redirect_url).netloc against the host of the page: "same", "other",
\* or "" for a path.
Netloc(server, url) ==
    IF url.site = "other" THEN "other"
    ELSE IF url.site = "page" /\ server.relative THEN ""
    ELSE "same"

\* An HTML page, fetched without redirects, with that visible text.
Page(forms, text) == [Server(0, "html", forms) EXCEPT !.text = text]

\* A page without redirects and forms.
Plain(fetch) == Server(0, fetch, <<>>)

\* An <input>, <textarea> or <select> of a form: `value` is the declared
\* value attribute, None when there is none.
Field(name, type, value, checked) ==
    [name |-> name, type |-> type, value |-> value, checked |-> checked]

ContainsAny(s, keywords) == \E keyword \in keywords : Contains(s, keyword)

\* The fill-in without the branch of the hidden fields.
FieldValueNoHidden(input_field) ==
    LET field_name == input_field.name
        lower == Lower(field_name)
    IN IF field_name = "" THEN None
       ELSE IF ContainsAny(lower, {"email", "username", "user", "login"})
            THEN Some("sandbox_test_user@phishlense.com")
       ELSE IF ContainsAny(lower, {"password", "pwd", "pass"}) THEN Some("FakePassword123!")
       ELSE IF ContainsAny(lower, {"card", "credit", "cvv", "cvc"})
            THEN Some(IF Contains(lower, "card") THEN "4111111111111111" ELSE "123")
       ELSE IF ContainsAny(lower, {"phone", "mobile", "tel"}) THEN Some("+1-555-0100")
       ELSE IF input_field.type \in {"checkbox", "radio"}
            THEN IF input_field.checked
                 THEN Some(IF input_field.value = None THEN "on" ELSE input_field.value[1])
                 ELSE None
       ELSE Some("test_" \o field_name)

\* The fill-in of one field, lines 311-327: the value put into
\* form_payload, None when the field gets no entry.
FieldValue(input_field) ==
    LET field_name == input_field.name
        lower == Lower(field_name)
    IN IF field_name = "" THEN None
       ELSE IF ContainsAny(lower, {"email", "username", "user", "login"})
            THEN Some("sandbox_test_user@phishlense.com")
       ELSE IF ContainsAny(lower, {"password", "pwd", "pass"}) THEN Some("FakePassword123!")
       ELSE IF ContainsAny(lower, {"card", "credit", "cvv", "cvc"})
            THEN Some(IF Contains(lower, "card") THEN "4111111111111111" ELSE "123")
       ELSE IF ContainsAny(lower, {"phone", "mobile", "tel"}) THEN Some("+1-555-0100")
       ELSE IF input_field.type = "hidden"
            THEN Some(IF input_field.value = None THEN "" ELSE input_field.value[1])
       ELSE IF input_field.type \in {"checkbox", "radio"}
            THEN IF input_field.checked
                 THEN Some(IF input_field.value = None THEN "on" ELSE input_field.value[1])
                 ELSE None
       ELSE Some("test_" \o field_name)

\* The form_payload dict of a form, lines 300-327: the last field of a
\* name sets the entry of that name.
FormPayload(fields) ==
    LET filled == {i \in DOMAIN fields : FieldValue(fields[i]) # None}
        names == {fields[i].name : i \in filled}
        latest(n) == CHOOSE i \in filled :
                       /\ fields[i].name = n
                       /\ \A j \in filled : fields[j].name = n => j <= i
    IN [n \in names |-> FieldValue(fields[latest(n)])[1]]

\* Whether the form is submitted, line 333.
Submits(form) == DOMAIN FormPayload(form.fields) # {} /\ form.action # ""

\* What the network does with a form submission: "fail" (the request
\* raises), "ok" (a 200 that is no HTML), "html" (a 200 HTML page), "away" (a
\* 302 to another host, no HTML) and "away_html" (a 302 to another host with
\* an HTML body).  Hosts are "same", the host of the page, and "other".
Submit == {"fail", "ok", "html", "away", "away_html"}

\* The submission of a form and the look at its response, lines 334-384.
\* `redirect_url` is the local variable of _execute_url, None while nothing
\* has been assigned to it: reading it then raises, and the except of line
\* 382 records the submission as failed.
Submitted(form, found) ==
    LET sent == [found EXCEPT !.posted = Append(@, FormPayload(form.fields))]
        failed(acc) == [acc EXCEPT !.errors = Append(@, "Error submitting form"),
                                   !.actions_taken = Append(@, "Failed to submit form")]
        answered == [sent EXCEPT !.actions_taken = Append(@, "Submitted form"),
                                 !.observations = Append(@, "Form submission status")]
        redirected ==
            IF form.submit \in {"away", "away_html"}
            THEN [answered EXCEPT !.redirect_url = Some("other"),
                                  !.redirects =
                                      Append(@, Redirect(Url("action", Len(found.forms_found)),
                                                         Url("other", Len(found.forms_found)),
                                                         "Form submission redirect")),
                                  !.observations = Append(@, "Form submission redirected")]
            ELSE answered
    IN IF form.submit = "fail" THEN failed(sent)
       ELSE IF form.submit \in {"html", "away_html"}
       THEN IF redirected.redirect_url = None THEN failed(redirected)
            ELSE IF redirected.redirect_url # Some("same")
            THEN [redirected EXCEPT !.observations =
                                        Append(@, "CRITICAL: Form redirected to different domain")]
            ELSE redirected
       ELSE redirected

\* re.search of  a.?b : a, then at most one character that is no newline,
\* then b.
Gap(s, a, b) ==
    \/ Contains(s, a \o b)
    \/ \E i \in 1..Len(s) : Char(s, i) # "\n" /\ Contains(s, a \o Char(s, i) \o b)

\* suspicious_patterns, lines 387-392, in their order.
suspicious_patterns ==
    <<"Password field detected", "Credit card field detected",
      "Banking information field detected", "Suspicious JavaScript detected">>

\* re.search(pattern, page_text, re.IGNORECASE) for the pattern of that
\* description.
Search(description, page_text) ==
    LET t == Lower(page_text) IN
    CASE description = "Password field detected" ->
           ContainsAny(t, {"password", "pwd", "passwd"})
      [] description = "Credit card field detected" ->
           Gap(t, "credit", "card") \/ Gap(t, "card", "number") \/ Contains(t, "cvv")
      [] description = "Banking information field detected" ->
           Gap(t, "bank", "account") \/ Contains(t, "routing")
      [] OTHER ->
           ContainsAny(t, {"javascript:", "onclick=", "onerror="})

RECURSIVE Scan(_, _, _)
\* The look for suspicious patterns in the text of the page, lines 394-397,
\* from pattern number k on.
Scan(text, k, acc) ==
    IF k > Len(suspicious_patterns) THEN acc
    ELSE Scan(text, k + 1,
              IF Search(suspicious_patterns[k], Lower(text))
              THEN [acc EXCEPT !.observations = Append(@, suspicious_patterns[k])]
              ELSE acc)

RECURSIVE FormLoop(_, _, _)
\* The loop over the forms of a page, lines 292-397, from form number i on;
\* `posted` holds the payloads submitted so far.  The look for suspicious
\* patterns is part of the body of the loop.
FormLoop(soup, i, acc) ==
    IF i > Len(soup.forms) THEN acc
    ELSE LET form == soup.forms[i]
             found == [acc EXCEPT !.forms_found = Append(@, Len(form.fields)),
                                  !.actions_taken = Append(@, "Found form")]
         IN FormLoop(soup, i + 1,
                     Scan(soup.text, 1,
                          IF Submits(form) THEN Submitted(form, found) ELSE found))

\* The body of the redirect loop after the GET has returned or raised,
\* lines 286-438, for a response that is no followed redirect.
Landed(server, got, acc) ==
    CASE got = "html" ->
           FormLoop(server, 1,
                    [acc EXCEPT !.actions_taken = Append(@, "Successfully accessed URL"),
                                !.observations = Append(@, "HTTP Status")])
      [] got = "other" ->
           [acc EXCEPT !.actions_taken = Append(@, "Successfully accessed URL"),
                       !.observations = @ \o <<"HTTP Status", "Response is not HTML">>]
      [] got = "timeout" ->
           [acc EXCEPT !.actions_taken = Append(@, "Request timed out"),
                       !.observations = Append(@, "URL did not respond within timeout period"),
                       !.errors = Append(@, got), !.success = TRUE]
      [] got = "dns" ->
           [acc EXCEPT !.actions_taken = Append(@, "Failed to connect"),
                       !.observations = @ \o <<"DNS resolution failed",
                                               "This could indicate: fake domain">>,
                       !.errors = Append(@, got), !.success = TRUE]
      [] got = "refused" ->
           [acc EXCEPT !.actions_taken = Append(@, "Failed to connect"),
                       !.observations = Append(@, "Connection refused"),
                       !.errors = Append(@, got), !.success = TRUE]
      [] OTHER ->
           [acc EXCEPT !.actions_taken = Append(@, "Request failed"),
                       !.observations = Append(@, "Request error"),
                       !.errors = Append(@, got), !.success = TRUE]

\* The while condition of the redirect loop with <= for <.
RedirectsLeftInclusive(redirect_count) == redirect_count <= max_redirects

\* The while condition of the redirect loop, line 259.
RedirectsLeft(redirect_count) == redirect_count < max_redirects

RECURSIVE RedirectLoop(_, _, _, _)
\* The redirect loop, lines 259-438.  `acc` holds the results, in `gets` the
\* number of GET requests issued to the page so far and in `fetched` the
\* URLs they went to; `redirect_url` holds the host named by the Location
\* last read, seen from the URL the loop goes on with.
RedirectLoop(url, server, redirect_count, acc) ==
    IF ~RedirectsLeft(redirect_count) THEN acc
    ELSE LET got == Reaches(url, IF redirect_count < server.hops THEN "redirect"
                                 ELSE server.final)
             sent == [acc EXCEPT !.gets = IF HasHttpScheme(url) THEN @ + 1 ELSE @,
                                 !.fetched = IF HasHttpScheme(url)
                                             THEN Append(@, Url("page", redirect_count))
                                             ELSE @]
         IN IF got = "redirect"
            THEN RedirectLoop(url, server, redirect_count + 1,
                    [sent EXCEPT !.actions_taken = Append(@, "Successfully accessed URL"),
                                 !.observations = Append(@, "HTTP Status"),
                                 !.redirects =
                                     Append(@, Redirect(Url("page", redirect_count),
                                                        Url("page", redirect_count + 1), "")),
                                 !.redirect_url =
                                     Some(Netloc(server, Url("page", redirect_count + 1)))])
            ELSE Landed(server, got, sent)

\* SandboxExecutor._execute_url, with the number of GET requests it issues
\* to the page and the payloads it submits.
UrlRun(content, server) ==
    LET norm == NormalizeUrl(content) IN
    IF norm = None
    THEN [success |-> FALSE, actions_taken |-> <<>>,
          observations |-> <<"Invalid URL format">>, redirects |-> <<>>,
          forms_found |-> <<>>,
          errors |-> <<"URL must start with http:// or https://">>, gets |-> 0,
          posted |-> <<>>, redirect_url |-> None, fetched |-> <<>>]
    ELSE LET looped ==
                 RedirectLoop(norm[1], server, 0,
                    [success |-> TRUE, actions_taken |-> <<"Attempting to access URL">>,
                     observations |-> <<>>, redirects |-> <<>>, forms_found |-> <<>>,
                     errors |-> <<>>, gets |-> 0, posted |-> <<>>, redirect_url |-> None,
                     fetched |-> <<>>])
         IN [looped EXCEPT !.observations = Append(@, "Total redirects followed")]

\* The keys of the results dict.
ResultKeys == {"success", "actions_taken", "observations", "redirects", "forms_found", "errors"}

\* SandboxExecutor._execute_url
_execute_url(content, server) ==
    [k \in ResultKeys |-> UrlRun(content, server)[k]]

\* Whether the probe of a url/link threat opens a connection.
UrlUsesNetwork(content) ==
    NormalizeUrl(content) # None /\ HasHttpScheme(NormalizeUrl(content)[1])

\* The characters the URL pattern of _execute_email excludes (whitespace,
\* angle brackets, double quote, braces, bar, backslash, caret, backquote,
\* square brackets).  A backquote cannot be written in a TLA+ string; no
\* content of the model holds one.
UrlChar(c) == ~IsSpace(c) /\ c \notin {"<", ">", "\"", "{", "}", "|", "\\", "^", "[", "]"}

RECURSIVE UrlEnd(_, _)
\* The position after the longest run of URL characters that starts at i.
UrlEnd(s, i) == IF i <= Len(s) /\ UrlChar(Char(s, i)) THEN UrlEnd(s, i + 1) ELSE i

\* Length of the scheme prefix https?:// at position i, 0 when there is none.
SchemeAt(s, i) ==
    IF i + 6 <= Len(s) /\ SubSeq(s, i, i + 6) = "http://" THEN 7
    ELSE IF i + 7 <= Len(s) /\ SubSeq(s, i, i + 7) = "https://" THEN 8
    ELSE 0

RECURSIVE FindUrlsFrom(_, _)
\* re.findall(url_pattern, s): the leftmost matches, not overlapping.
FindUrlsFrom(s, i) ==
    IF i > Len(s) THEN <<>>
    ELSE LET k == SchemeAt(s, i)
             e == UrlEnd(s, i + k)
         IN IF k > 0 /\ e > i + k
            THEN <<SubSeq(s, i, e - 1)>> \o FindUrlsFrom(s, e)
            ELSE FindUrlsFrom(s, i + 1)

FindUrls(s) == FindUrlsFrom(s, 1)

\* urls[:3]
EmailUrlLimit == 3

\* The slice without the limit.
AllUrls(urls) == urls

\* urls[:3], line 467
FirstUrls(urls) == SubSeq(urls, 1, IF Len(urls) < EmailUrlLimit THEN Len(urls) ELSE EmailUrlLimit)

\* SandboxExecutor._execute_url_simple: a failed request leaves only an
\* entry in the `errors` of its own result.
_execute_url_simple(url, server) ==
    IF server.final \in {"html", "other"}
    THEN [actions_taken |-> <<"Accessed URL">>, observations |-> <<"Final URL", "Status">>,
          errors |-> <<>>]
    ELSE [actions_taken |-> <<>>, observations |-> <<>>, errors |-> <<"Error accessing">>]

RECURSIVE EmailLoop(_, _, _, _)
\* The for loop of _execute_email, lines 467-470, from URL number i on;
\* `requested` holds the URLs _execute_url_simple has been called with, each
\* call being one requests.get (line 483).
EmailLoop(urls, fetches, i, acc) ==
    IF i > Len(urls) THEN acc
    ELSE LET r == _execute_url_simple(urls[i], fetches[i]) IN
         EmailLoop(urls, fetches, i + 1,
                   [acc EXCEPT !.actions_taken = @ \o r.actions_taken,
                               !.observations = @ \o r.observations,
                               !.requested = Append(@, urls[i])])

\* SandboxExecutor._execute_email with the URLs it requests; fetches[i] is
\* the fate of the i-th request.
EmailRun(content, fetches) ==
    EmailLoop(FirstUrls(FindUrls(content)), fetches, 1,
              [success |-> TRUE, actions_taken |-> <<>>,
               observations |-> <<"Found URLs in email">>, errors |-> <<>>,
               requested |-> <<>>])

\* The keys of the results dict of an email.
EmailKeys == {"success", "actions_taken", "observations", "errors"}

\* SandboxExecutor._execute_email
_execute_email(content, fetches) ==
    [k \in EmailKeys |-> EmailRun(content, fetches)[k]]

\* SandboxExecutor.execute, lines 184-189: the result of the probe.
Probe(threat_type, content, fetches) ==
    IF threat_type \in {"url", "link"} THEN _execute_url(content, fetches[1])
    ELSE IF threat_type = "email" THEN _execute_email(content, fetches)
    ELSE [EmptyResults EXCEPT
             !.observations = <<"Sandbox execution not applicable for this threat type">>]

\* Whether that probe issues a network request.
ProbeUsesNetwork(threat_type, content) ==
    IF threat_type \in {"url", "link"} THEN UrlUsesNetwork(content)
    ELSE IF threat_type = "email" THEN FindUrls(content) # <<>>
    ELSE FALSE

-----------------------------------------------------------------------------
(* TrafficEventViewSet.execute_sandbox: the threat made of an event.       *)

\* The URL pattern of execute_sandbox excludes parentheses too.
EventUrlChar(c) == UrlChar(c) /\ c \notin {"(", ")"}

RECURSIVE EventUrlEnd(_, _)
EventUrlEnd(s, i) == IF i <= Len(s) /\ EventUrlChar(Char(s, i)) THEN EventUrlEnd(s, i + 1) ELSE i

\* The alternatives of the pattern, matched with re.IGNORECASE.
EventPrefixes == {"http://", "https://", "www.", "bit.ly/", "tinyurl.com/", "goo.gl/", "t.co/"}

\* Length of the alternative's prefix at position i, 0 when there is none.
\* Every alternative starts with one of five letters.
PrefixAt(s, i) ==
    IF LowerChar(Char(s, i)) \notin {"h", "w", "b", "t", "g"} THEN 0
    ELSE LET found == {x \in EventPrefixes :
                          /\ i + Len(x) - 1 <= Len(s)
                          /\ Lower(SubSeq(s, i, i + Len(x) - 1)) = x}
         IN IF found = {} THEN 0 ELSE Len(CHOOSE x \in found : TRUE)

RECURSIVE EventUrlsFrom(_, _)
\* re.findall(url_pattern, event.payload, re.IGNORECASE)
EventUrlsFrom(s, i) ==
    IF i > Len(s) THEN <<>>
    ELSE LET k == PrefixAt(s, i)
             e == EventUrlEnd(s, i + k)
         IN IF k > 0 /\ e > i + k
            THEN <<SubSeq(s, i, e - 1)>> \o EventUrlsFrom(s, e)
            ELSE EventUrlsFrom(s, i + 1)

\* Lines 196-200: http:// is put before a URL that does not start with http.
Cleaned(url) == IF StartsWith(url, "http") THEN url ELSE "http://" \o url

\* Lines 191-223: the type and the content of the temporary threat.  When
\* the pattern finds no URL, the second search (its first alternative
\* alone) finds none either.
EventThreat(payload, payload_type) ==
    LET urls == EventUrlsFrom(payload, 1) IN
    IF urls # <<>> THEN [threat_type |-> "url", content |-> Cleaned(urls[1])]
    ELSE IF Contains(Lower(payload), "http") \/ Contains(Lower(payload), "www.")
         THEN [threat_type |-> "text", content |-> payload]
    ELSE IF Lower(payload_type) \in {"link", "url"}
         THEN [threat_type |-> "url", content |-> payload]
    ELSE [threat_type |-> "text", content |-> payload]

\* The event the requests are made on.
TheEvent ==
    [payload |-> "GET www.a.io/x", payload_type |-> "SQLi", status |-> "pending",
     sandbox_executed |-> FALSE, sandbox_results |-> None, actions_taken |-> <<>>]

\* Lines 225-229: the temporary threat.  No request writes the payload or
\* the payload_type of the event.
temp_threat == EventThreat(TheEvent.payload, TheEvent.payload_type)

-----------------------------------------------------------------------------
(* The Threat row and the requests of ThreatViewSet.                       *)

RECURSIVE Join(_)
\* '\n'.join(lines)
Join(lines) ==
    IF lines = <<>> THEN ""
    ELSE IF Len(lines) = 1 THEN lines[1]
    ELSE lines[1] \o "\n" \o Join(Tail(lines))

\* The column defaults of models.Threat; exists is FALSE until the row is
\* inserted.  sandbox_results is None for the default {}.
NoThreat ==
    [exists |-> FALSE, threat_type |-> "text", content |-> "", status |-> "pending",
     severity |-> "", ai_analysis |-> "", ai_explanation |-> "", recommendations |-> "",
     risk_score |-> None, analyzed_at |-> None,
     sandbox_executed |-> FALSE, sandbox_results |-> None, actions_taken |-> <<>>,
     observations |-> ""]

\* The threats a create request may carry: (threat_type, content).
CreateInputs ==
    { <<"url", "http://a.io">>, <<"link", "login">>,
      <<"email", "go to https://a.io now">>, <<"text", "login">> }

\* A reply in which no regex finds anything.
Silent ==
    [id |-> "", json |-> "none", risk_score |-> Absent, severity |-> Absent,
     is_threat |-> Absent, risk_match |-> None, severity_match |-> None, near |-> None,
     score_pat |-> None, risk100_pat |-> None, level_pat |-> None, prose |-> ""]

\* The replies of the model the lifecycle is run with.
Replies ==
    { [Silent EXCEPT !.id = "json", !.json = "object", !.risk_score = JNum(150),
                     !.severity = JStr("Severe")],
      [Silent EXCEPT !.id = "prose", !.risk_match = Some("87"),
                     !.severity_match = Some("Critical")] }

\* The fates of the page requests the lifecycle is run with; every request
\* of one probe meets the same fate.
Fetches == {[i \in 1..EmailUrlLimit |-> Plain(f)] : f \in {"html", "dns"}}

\* An analysis that also clears the sandbox state of the threat.
AnalyzedAfresh(t, text, stamp) ==
    LET analysis_data == _parse_analysis(text) IN
    [t EXCEPT !.ai_analysis = text.id,
              !.ai_explanation = text.id,
              !.recommendations = text.id,
              !.risk_score = Some(analysis_data.risk_score),
              !.severity = analysis_data.severity,
              !.analyzed_at = Some(stamp),
              !.sandbox_executed = FALSE,
              !.sandbox_results = None,
              !.status = "completed"]

\* ThreatAnalyzer.analyze, lines 62-68: the fields a successful analysis
\* sets.  The texts taken from the reply are named by the reply they come
\* from.
Analyzed(t, text, stamp) ==
    LET analysis_data == _parse_analysis(text) IN
    [t EXCEPT !.ai_analysis = text.id,
              !.ai_explanation = text.id,
              !.recommendations = text.id,
              !.risk_score = Some(analysis_data.risk_score),
              !.severity = analysis_data.severity,
              !.analyzed_at = Some(stamp),
              !.status = "completed"]

\* The save with the status taken from the errors of the results.
ExecutedUnlessErrors(t, res) ==
    [t EXCEPT !.sandbox_executed = TRUE,
              !.sandbox_results = Some(res),
              !.actions_taken = res.actions_taken,
              !.observations = Join(res.observations),
              !.status = IF res.errors = <<>> THEN "completed" ELSE "error"]

\* SandboxExecutor.execute, lines 191-195.
Executed(t, res) ==
    [t EXCEPT !.sandbox_executed = TRUE,
              !.sandbox_results = Some(res),
              !.actions_taken = res.actions_taken,
              !.observations = Join(res.observations),
              !.status = "completed"]

\* SandboxExecutor.execute, lines 205-207.
ExecuteFailed(t, res) ==
    [t EXCEPT !.sandbox_results = Some([res EXCEPT !.errors = Append(@, "exception")]),
              !.status = "error"]

\* ThreatViewSet.create, line 80.
WantsSandbox(execute_in_sandbox, t) ==
    execute_in_sandbox /\ t.threat_type \in {"url", "link", "email"}

\* A request is handed to the first idle worker.
Order == [p \in Procs |-> IF p = "w1" THEN 1 ELSE 2]

Accepts(p) ==
    /\ pc[p] = "idle"
    /\ \A q \in Procs : pc[q] = "idle" => Order[p] <= Order[q]
    /\ nreq < MaxRequests

\* execute and reanalyze name the threat by the id that the response of
\* create returned.
Published == threat.exists /\ \A q \in Procs : op[q] = "create" => pc[q] = "idle"

\* Where a process goes when analyzer.analyze returns.
AfterAnalyze(p) ==
    IF op[p] = "create" /\ WantsSandbox(sandbox[p], obj[p]) THEN "ex_start" ELSE "respond"

\* Whether a save of the threat is a status transition: the creation, or a
\* status other than the stored one.
Moved(stored, saved) == IF ~stored.exists \/ saved.status # stored.status THEN 1 ELSE 0

\* ThreatViewSet.create, lines 56-67: Threat.objects.create.
CreateThreat(p) ==
    /\ Accepts(p) /\ ~threat.exists
    /\ \E in \in CreateInputs, x \in BOOLEAN :
         /\ threat' = [NoThreat EXCEPT !.exists = TRUE, !.threat_type = in[1],
                                       !.content = in[2]]
         /\ obj' = [obj EXCEPT ![p] = threat']
         /\ transitions' = transitions + Moved(threat, threat')
         /\ sandbox' = [sandbox EXCEPT ![p] = x]
    /\ pc' = [pc EXCEPT ![p] = "received"]
    /\ op' = [op EXCEPT ![p] = "create"]
    /\ resp' = [resp EXCEPT ![p] = 0]
    /\ nreq' = nreq + 1
    /\ UNCHANGED <<timeline, results, net, event, rateVars, parseVars, mediaVars, probe>>

\* ThreatViewSet.create, lines 69-73, without the timeline event.
CreateReceivedSilently(p) ==
    /\ pc[p] = "received"
    /\ pc' = [pc EXCEPT ![p] = "an_start"]
    /\ UNCHANGED <<timeline, threat, transitions, op, obj, results, resp, sandbox, net, nreq, event, rateVars, parseVars, mediaVars, probe>>

\* ThreatViewSet.create, lines 69-73.
CreateReceived(p) ==
    /\ pc[p] = "received"
    /\ timeline' = Append(timeline, "threat_received")
    /\ pc' = [pc EXCEPT ![p] = "an_start"]
    /\ UNCHANGED <<threat, transitions, op, obj, results, resp, sandbox, net, nreq, event, rateVars, parseVars, mediaVars, probe>>

\* reanalyze with a guard: a threat that is being analyzed or executed is
\* refused.
ReanalyzeOnlySettled(p) ==
    /\ Accepts(p) /\ Published
    /\ op' = [op EXCEPT ![p] = "reanalyze"]
    /\ nreq' = nreq + 1
    /\ IF threat.status \in {"analyzing", "executing"}
       THEN /\ resp' = [resp EXCEPT ![p] = 400]
            /\ UNCHANGED <<pc, obj>>
       ELSE /\ resp' = [resp EXCEPT ![p] = 0]
            /\ obj' = [obj EXCEPT ![p] = threat]
            /\ pc' = [pc EXCEPT ![p] = "an_start"]
    /\ UNCHANGED <<threat, transitions, timeline, results, sandbox, net, event, rateVars, parseVars, mediaVars, probe>>

\* ThreatViewSet.reanalyze, lines 110-113: get_object.
ReanalyzeRequest(p) ==
    /\ Accepts(p) /\ Published
    /\ obj' = [obj EXCEPT ![p] = threat]
    /\ pc' = [pc EXCEPT ![p] = "an_start"]
    /\ op' = [op EXCEPT ![p] = "reanalyze"]
    /\ resp' = [resp EXCEPT ![p] = 0]
    /\ nreq' = nreq + 1
    /\ UNCHANGED <<threat, transitions, timeline, results, sandbox, net, event, rateVars, parseVars, mediaVars, probe>>

\* ThreatAnalyzer.analyze, lines 26-30.
AnalysisStarted(p) ==
    /\ pc[p] = "an_start"
    /\ timeline' = Append(timeline, "analysis_started")
    /\ pc' = [pc EXCEPT ![p] = "an_mark"]
    /\ UNCHANGED <<threat, transitions, op, obj, results, resp, sandbox, net, nreq, event, rateVars, parseVars, mediaVars, probe>>

\* ThreatAnalyzer.analyze, lines 32-33.
AnalysisMark(p) ==
    /\ pc[p] = "an_mark"
    /\ obj' = [obj EXCEPT ![p].status = "analyzing"]
    /\ threat' = obj'[p]
    /\ transitions' = transitions + Moved(threat, threat')
    /\ pc' = [pc EXCEPT ![p] = "an_call"]
    /\ UNCHANGED <<timeline, op, results, resp, sandbox, net, nreq, event, rateVars, parseVars, mediaVars, probe>>

\* ThreatAnalyzer.analyze, lines 38-69: the model replies and the result
\* is saved.
AnalysisSave(p) ==
    /\ pc[p] = "an_call"
    /\ \E text \in Replies : obj' = [obj EXCEPT ![p] = Analyzed(@, text, nreq)]
    /\ threat' = obj'[p]
    /\ transitions' = transitions + Moved(threat, threat')
    /\ pc' = [pc EXCEPT ![p] = "an_ok"]
    /\ UNCHANGED <<timeline, op, results, resp, sandbox, net, nreq, event, rateVars, parseVars, mediaVars, probe>>

\* The except branch with a reset of what the analysis writes.
AnalysisFailedCleared(t) ==
    [t EXCEPT !.status = "error", !.ai_analysis = "", !.ai_explanation = "",
              !.recommendations = "", !.risk_score = None, !.severity = "",
              !.analyzed_at = None]

\* ThreatAnalyzer.analyze, line 83: what the except branch sets.
AnalysisFailed(t) == [t EXCEPT !.status = "error"]

\* The except branch without the save of the status.
AnalysisFaultUnsaved(p) ==
    /\ pc[p] = "an_call"
    /\ pc' = [pc EXCEPT ![p] = "an_err"]
    /\ UNCHANGED <<threat, transitions, obj, timeline, op, results, resp, sandbox, net, nreq, event, rateVars, parseVars, mediaVars, probe>>

\* ThreatAnalyzer.analyze, lines 38-56 and 82-84: the model call raises.
AnalysisFault(p) ==
    /\ pc[p] = "an_call"
    /\ obj' = [obj EXCEPT ![p] = AnalysisFailed(@)]
    /\ threat' = obj'[p]
    /\ transitions' = transitions + Moved(threat, threat')
    /\ pc' = [pc EXCEPT ![p] = "an_err"]
    /\ UNCHANGED <<timeline, op, results, resp, sandbox, net, nreq, event, rateVars, parseVars, mediaVars, probe>>

\* ThreatAnalyzer.analyze, lines 71-80.
AnalysisCompleted(p) ==
    /\ pc[p] = "an_ok"
    /\ timeline' = Append(timeline, "analysis_completed")
    /\ pc' = [pc EXCEPT ![p] = AfterAnalyze(p)]
    /\ UNCHANGED <<threat, transitions, op, obj, results, resp, sandbox, net, nreq, event, rateVars, parseVars, mediaVars, probe>>

\* ThreatAnalyzer.analyze, lines 85-93.
AnalysisError(p) ==
    /\ pc[p] = "an_err"
    /\ timeline' = Append(timeline, "analysis_error")
    /\ pc' = [pc EXCEPT ![p] = AfterAnalyze(p)]
    /\ UNCHANGED <<threat, transitions, op, obj, results, resp, sandbox, net, nreq, event, rateVars, parseVars, mediaVars, probe>>

\* ThreatViewSet.execute without the guard of lines 94-98.
ExecuteUnguarded(p) ==
    /\ Accepts(p) /\ Published
    /\ op' = [op EXCEPT ![p] = "execute"]
    /\ nreq' = nreq + 1
    /\ resp' = [resp EXCEPT ![p] = 0]
    /\ obj' = [obj EXCEPT ![p] = threat]
    /\ pc' = [pc EXCEPT ![p] = "ex_start"]
    /\ UNCHANGED <<threat, transitions, timeline, results, sandbox, net, event, rateVars, parseVars, mediaVars, probe>>

\* ThreatViewSet.execute, lines 92-100: get_object and the guard.
ExecuteRequest(p) ==
    /\ Accepts(p) /\ Published
    /\ op' = [op EXCEPT ![p] = "execute"]
    /\ nreq' = nreq + 1
    /\ IF threat.sandbox_executed
       THEN /\ resp' = [resp EXCEPT ![p] = 400]
            /\ UNCHANGED <<pc, obj>>
       ELSE /\ resp' = [resp EXCEPT ![p] = 0]
            /\ obj' = [obj EXCEPT ![p] = threat]
            /\ pc' = [pc EXCEPT ![p] = "ex_start"]
    /\ UNCHANGED <<threat, transitions, timeline, results, sandbox, net, event, rateVars, parseVars, mediaVars, probe>>

\* SandboxExecutor.execute, lines 165-169.
SandboxStarted(p) ==
    /\ pc[p] = "ex_start"
    /\ timeline' = Append(timeline, "sandbox_execution_started")
    /\ pc' = [pc EXCEPT ![p] = "ex_mark"]
    /\ UNCHANGED <<threat, transitions, op, obj, results, resp, sandbox, net, nreq, event, rateVars, parseVars, mediaVars, probe>>

\* SandboxExecutor.execute, lines 171-181.
SandboxMark(p) ==
    /\ pc[p] = "ex_mark"
    /\ obj' = [obj EXCEPT ![p].status = "executing"]
    /\ threat' = obj'[p]
    /\ transitions' = transitions + Moved(threat, threat')
    /\ results' = [results EXCEPT ![p] = EmptyResults]
    /\ pc' = [pc EXCEPT ![p] = "ex_probe"]
    /\ UNCHANGED <<timeline, op, resp, sandbox, net, nreq, event, rateVars, parseVars, mediaVars, probe>>

\* SandboxExecutor.execute, lines 184-189: the probe returns.
SandboxProbe(p) ==
    /\ pc[p] = "ex_probe"
    /\ \E f \in Fetches :
         results' = [results EXCEPT ![p] = Probe(obj[p].threat_type, obj[p].content, f)]
    /\ net' = IF ProbeUsesNetwork(obj[p].threat_type, obj[p].content) THEN net + 1 ELSE net
    /\ pc' = [pc EXCEPT ![p] = "ex_save"]
    /\ UNCHANGED <<threat, transitions, timeline, op, obj, resp, sandbox, nreq, event, rateVars, parseVars, mediaVars, probe>>

\* SandboxExecutor.execute, lines 184-189 and 204-208: the probe raises
\* outside the handlers of _execute_url (line 241, for one) and the except
\* branch saves the threat.
SandboxFault(p) ==
    /\ pc[p] = "ex_probe"
    /\ obj[p].threat_type \in {"url", "link"}
    /\ NormalizeUrl(obj[p].content) # None
    /\ obj' = [obj EXCEPT ![p] = ExecuteFailed(@, results[p])]
    /\ threat' = obj'[p]
    /\ transitions' = transitions + Moved(threat, threat')
    /\ results' = [results EXCEPT ![p].errors = Append(@, "exception")]
    /\ pc' = [pc EXCEPT ![p] = "ex_err"]
    /\ UNCHANGED <<timeline, op, resp, sandbox, net, nreq, event, rateVars, parseVars, mediaVars, probe>>

\* SandboxExecutor.execute, lines 191-196.
SandboxSave(p) ==
    /\ pc[p] = "ex_save"
    /\ obj' = [obj EXCEPT ![p] = Executed(@, results[p])]
    /\ threat' = obj'[p]
    /\ transitions' = transitions + Moved(threat, threat')
    /\ pc' = [pc EXCEPT ![p] = "ex_ok"]
    /\ UNCHANGED <<timeline, op, results, resp, sandbox, net, nreq, event, rateVars, parseVars, mediaVars, probe>>

\* SandboxExecutor.execute, lines 198-202.
SandboxCompleted(p) ==
    /\ pc[p] = "ex_ok"
    /\ timeline' = Append(timeline, "sandbox_execution_completed")
    /\ pc' = [pc EXCEPT ![p] = "respond"]
    /\ UNCHANGED <<threat, transitions, op, obj, results, resp, sandbox, net, nreq, event, rateVars, parseVars, mediaVars, probe>>

\* SandboxExecutor.execute, lines 210-214.
SandboxError(p) ==
    /\ pc[p] = "ex_err"
    /\ timeline' = Append(timeline, "sandbox_execution_error")
    /\ pc' = [pc EXCEPT ![p] = "respond"]
    /\ UNCHANGED <<threat, transitions, op, obj, results, resp, sandbox, net, nreq, event, rateVars, parseVars, mediaVars, probe>>

\* What executor.execute(temp_threat) returns: the results of the probe,
\* or the initial results with the error when the probe raises
\* (services.py, lines 174-181 and 204-216).
ExecutorOutcomes ==
    {Probe(temp_threat.threat_type, temp_threat.content, f) : f \in Fetches}
        \cup {[EmptyResults EXCEPT !.errors = <<"exception">>]}

\* TrafficEventViewSet.execute_sandbox.  The executor runs on a temporary
\* threat, whose timeline rows are deleted with it.
ExecuteSandbox(p) ==
    /\ Accepts(p)
    /\ op' = [op EXCEPT ![p] = "execute_sandbox"]
    /\ nreq' = nreq + 1
    /\ IF event.sandbox_executed
       THEN /\ resp' = [resp EXCEPT ![p] = 400]
            /\ UNCHANGED <<event, net>>
       ELSE /\ \E res \in ExecutorOutcomes :
                 event' = [event EXCEPT !.sandbox_executed = TRUE,
                                       !.sandbox_results = Some(res),
                                       !.actions_taken = res.actions_taken]
            /\ net' = IF ProbeUsesNetwork(temp_threat.threat_type, temp_threat.content)
                      THEN net + 1 ELSE net
            /\ resp' = [resp EXCEPT ![p] = 200]
    /\ UNCHANGED <<threat, transitions, timeline, pc, obj, results, sandbox, rateVars, parseVars, mediaVars, probe>>

\* The end of create, execute and reanalyze: refresh_from_db and the
\* response; the request's objects are dropped.
Respond(p) ==
    /\ pc[p] = "respond"
    /\ resp' = [resp EXCEPT ![p] = IF op[p] = "create" THEN 201 ELSE 200]
    /\ pc' = [pc EXCEPT ![p] = "idle"]
    /\ obj' = [obj EXCEPT ![p] = NoThreat]
    /\ results' = [results EXCEPT ![p] = EmptyResults]
    /\ sandbox' = [sandbox EXCEPT ![p] = FALSE]
    /\ UNCHANGED <<threat, transitions, timeline, op, net, nreq, event, rateVars, parseVars, mediaVars, probe>>

LifeInit ==
    /\ threat = NoThreat
    /\ timeline = <<>>
    /\ pc = [p \in Procs |-> "idle"]
    /\ op = [p \in Procs |-> "none"]
    /\ obj = [p \in Procs |-> NoThreat]
    /\ results = [p \in Procs |-> EmptyResults]
    /\ resp = [p \in Procs |-> 0]
    /\ sandbox = [p \in Procs |-> FALSE]
    /\ net = 0
    /\ nreq = 0
    /\ event = TheEvent
    /\ transitions = 0

-----------------------------------------------------------------------------
(* RateLimiter over the Django cache.  An entry holds its value and the    *)
(* time it expires at; cache.get answers the default for a key whose entry *)
(* is missing or has expired.                                              *)

\* RateLimiter(max_requests, window_seconds): the values the limiter is
\* run with here, the window in time units.
MaxRequestsPerWindow == 2
WindowSeconds == 2

\* The clock stops at MaxTime and the callers make MaxCalls calls.
MaxTime == 4
MaxCalls == 4

Keys == {"user_1", "anonymous"}

NoEntry == [value |-> 0, expires |-> 0]

Live(key) == now < cache[key].expires

\* cache.get(cache_key, 0)
CacheGet(key) == IF Live(key) THEN cache[key].value ELSE 0

\* The check with > for >=.
ExhaustedAbove(cur) == cur > MaxRequestsPerWindow

\* RateLimiter.is_allowed, line 32.
Exhausted(cur) == cur >= MaxRequestsPerWindow

\* The write, without the increment.
CacheSetUnincremented(key, value) ==
    [cache EXCEPT ![key] = [value |-> value - 1, expires |-> now + WindowSeconds]]

\* cache.set(cache_key, value, self.window_seconds)
CacheSet(key, value) == [cache EXCEPT ![key] = [value |-> value, expires |-> now + WindowSeconds]]

\* A caller is taken from the idle ones in a fixed order.
Calls(p) ==
    /\ rpc[p] = "idle"
    /\ \A q \in Procs : rpc[q] = "idle" => Order[p] <= Order[q]

\* The record of a call on `key` that returns now: what it returned, the
\* number of calls admitted in the window so far (nth), and whether the call
\* that returned before it was a denied call on the same key.
Returned(key, allowed, remaining, nth) ==
    [called |-> TRUE, key |-> key, allowed |-> allowed, remaining |-> remaining,
     nth |-> nth, at |-> now,
     after_denial |-> last.called /\ last.key = key /\ ~last.allowed]

\* Another call on the key is between its cache.get and its cache.set.
Overlaps(p, key) == \E q \in Procs \ {p} : rpc[q] = "set" /\ rkey[q] = key

\* is_allowed with a denial that writes the counter back, which renews the
\* expiry of the entry.
IsAllowedGetRenewing(p, key) ==
    /\ Calls(p) /\ ncalls < MaxCalls
    /\ ncalls' = ncalls + 1
    /\ IF Exhausted(CacheGet(key))
       THEN /\ last' = Returned(key, FALSE, 0, window[key].admitted)
            /\ cache' = CacheSet(key, CacheGet(key))
            /\ UNCHANGED <<rpc, rkey, current, window>>
       ELSE /\ rpc' = [rpc EXCEPT ![p] = "set"]
            /\ rkey' = [rkey EXCEPT ![p] = key]
            /\ current' = [current EXCEPT ![p] = CacheGet(key)]
            /\ window' = [window EXCEPT ![key].serial = @ /\ ~Overlaps(p, key)]
            /\ UNCHANGED <<last, cache>>
    /\ UNCHANGED <<now, seen, lifeVars, parseVars, mediaVars, probe>>

\* RateLimiter.is_allowed, lines 29-33: cache.get and the check.
IsAllowedGet(p, key) ==
    /\ Calls(p) /\ ncalls < MaxCalls
    /\ ncalls' = ncalls + 1
    /\ IF Exhausted(CacheGet(key))
       THEN /\ last' = Returned(key, FALSE, 0, window[key].admitted)
            /\ UNCHANGED <<rpc, rkey, current, window>>
       ELSE /\ rpc' = [rpc EXCEPT ![p] = "set"]
            /\ rkey' = [rkey EXCEPT ![p] = key]
            /\ current' = [current EXCEPT ![p] = CacheGet(key)]
            /\ window' = [window EXCEPT ![key].serial = @ /\ ~Overlaps(p, key)]
            /\ UNCHANGED last
    /\ UNCHANGED <<now, cache, seen, lifeVars, parseVars, mediaVars, probe>>

\* The entry the call writes starts a window when the call saw no entry and
\* none is live now.
StartsWindow(p) == current[p] = 0 /\ ~Live(rkey[p])

\* RateLimiter.is_allowed, lines 35-37: cache.set and the return.
IsAllowedSet(p) ==
    /\ rpc[p] = "set"
    /\ cache' = CacheSet(rkey[p], current[p] + 1)
    /\ window' = [window EXCEPT ![rkey[p]] =
                     [created |-> IF StartsWindow(p) THEN now ELSE @.created,
                      admitted |-> IF StartsWindow(p) THEN 1 ELSE @.admitted + 1,
                      serial |-> IF StartsWindow(p) THEN ~Overlaps(p, rkey[p])
                                 ELSE @.serial]]
    /\ last' = Returned(rkey[p], TRUE, MaxRequestsPerWindow - (current[p] + 1),
                        window'[rkey[p]].admitted)
    /\ rpc' = [rpc EXCEPT ![p] = "idle"]
    /\ rkey' = [rkey EXCEPT ![p] = "anonymous"]
    /\ current' = [current EXCEPT ![p] = 0]
    /\ UNCHANGED <<now, seen, ncalls, lifeVars, parseVars, mediaVars, probe>>

\* max(0, x)
Max0(x) == IF x > 0 THEN x ELSE 0

\* RateLimiter.get_remaining
GetRemaining(p, key) ==
    /\ Calls(p)
    /\ seen' = [key |-> key, remaining |-> Max0(MaxRequestsPerWindow - CacheGet(key))]
    /\ UNCHANGED <<now, cache, rpc, rkey, current, window, last, ncalls, lifeVars, parseVars, mediaVars, probe>>

\* A time unit passes.
Tick ==
    /\ now < MaxTime
    /\ now' = now + 1
    /\ UNCHANGED <<cache, rpc, rkey, current, seen, window, last, ncalls, lifeVars, parseVars, mediaVars, probe>>

RateInit ==
    /\ now = 0
    /\ cache = [k \in Keys |-> NoEntry]
    /\ rpc = [p \in Procs |-> "idle"]
    /\ rkey = [p \in Procs |-> "anonymous"]
    /\ current = [p \in Procs |-> 0]
    /\ seen = [key |-> "anonymous", remaining |-> MaxRequestsPerWindow]
    /\ window = [k \in Keys |-> [created |-> 0, admitted |-> 0, serial |-> TRUE]]
    /\ last = [called |-> FALSE, key |-> "anonymous", allowed |-> TRUE,
               remaining |-> MaxRequestsPerWindow, nth |-> 0, at |-> 0,
               after_denial |-> FALSE]
    /\ ncalls = 0

-----------------------------------------------------------------------------
(* The parsers, applied to a reply.                                        *)

Numerals == {None, Some("7"), Some("150")}

\* The keys of a parsed object.
Objects ==
    [risk_score : {Absent, JNull, JNum(-5), JNum(87), JNum(150), JStr("85"), JStr("high")},
     severity : {Absent, JNull, JStr("HIGH"), JStr("Severe")},
     is_threat : {Absent, JBool(TRUE), JBool(FALSE)}]

NoObject == [risk_score |-> Absent, severity |-> Absent, is_threat |-> Absent]

Proses == {"", "Phishing attack", "No threat: a suspicious but legitimate link"}

\* The replies the parsers are run on.
Texts ==
    { [id |-> "text", json |-> j, risk_score |-> o.risk_score, severity |-> o.severity,
       is_threat |-> o.is_threat, risk_match |-> m[1], severity_match |-> sm,
       near |-> m[2], score_pat |-> m[3], risk100_pat |-> m[4], level_pat |-> m[5],
       prose |-> pr] :
        j \in {"none", "invalid", "object"},
        o \in Objects,
        m \in {None, Some("999")} \X Numerals \X Numerals \X {None, Some("7")}
                \X {None, Some("7")},
        sm \in {None, Some("Critical")},
        pr \in Proses }

\* A reply without a parsed object has no keys.
WellFormed(reply) ==
    reply.json # "object" => [k \in DOMAIN NoObject |-> reply[k]] = NoObject

NotParsed == Result(FALSE, Absent, Absent, "")

\* ThreatAnalyzer.analyze, lines 59-64, on the reply.
ParseForThreat ==
    /\ path = "none"
    /\ path' = IF analysis_text.json # "none" /\ ~JsonPathRaises(analysis_text) THEN "threat_json"
               ELSE "threat_regex"
    /\ surfaced' = Result(TRUE, JNum(_parse_analysis(analysis_text).risk_score), Absent, "")
    /\ UNCHANGED <<analysis_text, lifeVars, rateVars, mediaVars, probe>>

\* OpenAIMediaAnalyzer._analyze_text on the reply.
ParseForMediaText ==
    /\ path = "none"
    /\ path' = "media_text"
    /\ surfaced' = _analyze_text(analysis_text)
    /\ UNCHANGED <<analysis_text, lifeVars, rateVars, mediaVars, probe>>

\* OpenAIMediaAnalyzer._analyze_image on the reply.
ParseForMediaImage ==
    /\ path = "none"
    /\ path' = "media_image"
    /\ surfaced' = _analyze_image(analysis_text)
    /\ UNCHANGED <<analysis_text, lifeVars, rateVars, mediaVars, probe>>

-----------------------------------------------------------------------------
(* OpenAIMediaAnalyzer._detect_threat_in_text on its own.                   *)

DetectWords == {"", "phishing", "Attack", "THREAT", "no threat", "Benign", "fine"}

\* Texts of three words.
DetectTexts == {a \o " " \o b \o " " \o c : a \in DetectWords, b \in DetectWords, c \in DetectWords}

\* _detect_threat_in_text on the text.
DetectThreat ==
    /\ path = "none"
    /\ path' = "detect"
    /\ surfaced' = Result(TRUE, Absent, JBool(_detect_threat_in_text(analysis_text.prose)), "")
    /\ UNCHANGED <<analysis_text, lifeVars, rateVars, mediaVars, probe>>

ParseInit ==
    /\ analysis_text = Silent
    /\ path = "none"
    /\ surfaced = NotParsed

-----------------------------------------------------------------------------
(* MediaAnalysisViewSet.create and OpenAIMediaAnalyzer.analyze.  A request  *)
(* is served in one step; the requests of the model come from one user.     *)

\* The requests the clients make.
MaxMedia == 3

MediaType == {"text", "image", "video", "audio"}

\* A reply of the model to a media analysis.
MediaReply(json, risk_score, is_threat, near, prose) ==
    [id |-> "text", json |-> json, risk_score |-> risk_score, severity |-> Absent,
     is_threat |-> is_threat, risk_match |-> None, severity_match |-> None,
     near |-> near, score_pat |-> None, risk100_pat |-> None, level_pat |-> None,
     prose |-> prose]

MediaReplies ==
    {MediaReply("object", JNum(150), JBool(FALSE), None, "Phishing attack"),
     MediaReply("object", JStr("high"), JBool(TRUE), None, ""),
     MediaReply("none", Absent, Absent, Some("7"), "No threat: a suspicious but legitimate link")}

\* MediaAnalysis.objects.create(..., status='analyzing'), lines 61-69, with
\* the defaults of the model's fields.
NewMediaAnalysis(media_type) ==
    [media_type |-> media_type, status |-> "analyzing", risk_score |-> JNull,
     is_threat |-> JBool(FALSE), error_message |-> ""]

\* OpenAIMediaAnalyzer.analyze after the rate check, lines 92-117.  `fault`
\* is an error of the API call: _analyze_image catches it itself, the except
\* of analyze catches the one of _analyze_text.
Dispatch(media_type, reply, fault) ==
    IF media_type = "text"
    THEN IF fault THEN Result(FALSE, Absent, Absent, "Analysis error") ELSE _analyze_text(reply)
    ELSE IF media_type = "image"
    THEN IF fault THEN Result(FALSE, Absent, Absent, "OpenAI API error") ELSE _analyze_image(reply)
    ELSE IF media_type = "audio"
    THEN Result(FALSE, Absent, Absent, "URL audio transcription not yet supported")
    ELSE Result(FALSE, Absent, Absent, "Video analysis requires frame extraction")

RateLimitExceeded == Result(FALSE, Absent, Absent, "Rate limit exceeded")

\* OpenAIMediaAnalyzer.analyze, lines 80-117.
analyze(rate_key, media_type, reply, fault) ==
    IF Exhausted(CacheGet(rate_key)) THEN RateLimitExceeded
    ELSE Dispatch(media_type, reply, fault)

\* The view's update of the record with the result, lines 131-150.
Updated(media_analysis, analysis_result) ==
    IF analysis_result.success
    THEN [media_analysis EXCEPT !.risk_score = analysis_result.risk_score,
                                !.is_threat = analysis_result.is_threat,
                                !.status = "completed"]
    ELSE [media_analysis EXCEPT !.status = "error",
                                !.error_message = analysis_result.error]

\* media_analysis.save() raises on a risk_score that is no number.
SaveRaises(media_analysis) ==
    media_analysis.risk_score.t = "str" /\ FloatRaises(media_analysis.risk_score)

\* MediaAnalysisViewSet.create, lines 32-167.  `content` is whether the
\* request carries what its media type needs.
MediaCreate(media_type, content, reply, fault) ==
    /\ nmedia < MaxMedia
    /\ nmedia' = nmedia + 1
    /\ IF ~content
       THEN /\ mresp' = [status |-> 400, error |-> "required"]
            /\ UNCHANGED <<media, cache>>
       ELSE LET rate_key == "user_1"
                analysis_result == analyze(rate_key, media_type, reply, fault)
                media_analysis == Updated(NewMediaAnalysis(media_type), analysis_result)
            IN /\ cache' = IF Exhausted(CacheGet(rate_key)) THEN cache
                           ELSE CacheSet(rate_key, CacheGet(rate_key) + 1)
               /\ IF SaveRaises(media_analysis)
                  THEN /\ media' = Append(media, NewMediaAnalysis(media_type))
                       /\ mresp' = [status |-> 500, error |-> "save"]
                  ELSE /\ media' = Append(media, media_analysis)
                       /\ mresp' = [status |-> IF media_analysis.status = "error" THEN 400 ELSE 201,
                                    error |-> media_analysis.error_message]
    /\ UNCHANGED <<now, rpc, rkey, current, seen, window, last, ncalls, lifeVars, parseVars, probe>>

MediaInit ==
    /\ media = <<>>
    /\ mresp = [status |-> 0, error |-> ""]
    /\ nmedia = 0

-----------------------------------------------------------------------------
(* SandboxExecutor._execute_url on its own: redirects and forms.            *)

ProbeContents == {"http://a.io", "www.a.io", " a.io/x ", "ftp://a.io", "login"}

ProbeFields ==
    {Field(name, type, value, checked) :
        name \in {"", "token", "card_token", "email", "cc_number"},
        type \in {"hidden", "text", "checkbox"},
        value \in {None, Some("4111")},
        checked \in BOOLEAN}

Form(action, method, fields, submit) ==
    [action |-> action, method |-> method, fields |-> fields, submit |-> submit]

ProbeForms ==
    {Form(action, "POST", <<f>>, submit) :
        action \in {"", "/go"}, f \in ProbeFields, submit \in Submit}
    \cup {Form("/go", "GET", <<Field("token", "hidden", Some("a"), FALSE),
                               Field("token", "text", None, FALSE)>>, "ok"),
          Form("/go", "POST", <<Field("", "text", None, FALSE),
                                Field("token", "text", None, FALSE)>>, "ok")}

\* A form of one text field that is submitted, with that fate.
TokenForm(submit) == Form("/go", "POST", <<Field("token", "text", None, FALSE)>>, submit)

PageTexts ==
    {"", "Enter your Password", "credit-card or CVV", "Bank account, password", "onclick=go()"}

ProbeServers ==
    {Server(hops, final, <<>>) : hops \in 0..(max_redirects + 1), final \in Fetch}
    \cup {Server(0, "html", <<form>>) : form \in ProbeForms}
    \cup {[Server(1, "html", <<TokenForm(submit)>>) EXCEPT !.relative = relative] :
              submit \in Submit, relative \in BOOLEAN}
    \cup {Server(hops, "html", <<TokenForm(first), TokenForm(second)>>) :
              hops \in 0..1, first \in Submit, second \in Submit}
    \cup {Page(forms, text) :
              forms \in {<<>>, <<TokenForm("ok")>>, <<TokenForm("ok"), TokenForm("ok")>>},
              text \in PageTexts}

\* A url threat with that content, analyzed, and the run not yet made.
NotProbed(content, server) ==
    [content |-> content, server |-> server, done |-> FALSE,
     threat |-> [NoThreat EXCEPT !.exists = TRUE, !.threat_type = "url",
                                 !.content = content, !.status = "analyzed"],
     results |-> EmptyResults, raised |-> FALSE, gets |-> 0, posted |-> <<>>,
     fetched |-> <<>>]

\* SandboxExecutor.execute on the url threat, against the server, with no
\* other request in flight: _execute_url returns and the threat is saved.
ExecuteUrl ==
    /\ ~probe.done
    /\ \E run \in {UrlRun(probe.content, probe.server)} :
         probe' = [probe EXCEPT !.done = TRUE,
                                !.results = [k \in ResultKeys |-> run[k]],
                                !.threat = Executed(@, [k \in ResultKeys |-> run[k]]),
                                !.gets = run.gets,
                                !.posted = run.posted,
                                !.fetched = run.fetched]
    /\ UNCHANGED <<lifeVars, rateVars, parseVars, mediaVars>>

\* SandboxExecutor.execute when _execute_url raises before its first
\* request (line 241): the except branch saves the threat, lines 204-208.
ExecuteUrlFault ==
    /\ ~probe.done
    /\ NormalizeUrl(probe.content) # None
    /\ probe' = [probe EXCEPT !.done = TRUE, !.raised = TRUE,
                              !.results = [EmptyResults EXCEPT !.errors = <<"exception">>],
                              !.threat = ExecuteFailed(@, EmptyResults)]
    /\ UNCHANGED <<lifeVars, rateVars, parseVars, mediaVars>>

ProbeInit == probe = NotProbed("", Plain("html"))

-----------------------------------------------------------------------------
(* SandboxExecutor._execute_email on its own.                              *)

\* The most URLs a body of the model holds.
MaxUrls == 5

EmailContents ==
    {"no links here", "see http://a.io/1 .", "http://a.io/1 then https://b.io/2",
     "http://a.io/1 <http://b.io/2> http://c.io/3",
     "http://a.io/1 http://b.io/2 http://c.io/3 http://d.io/4",
     "http://e.io/5 http://d.io/4 http://c.io/3 http://b.io/2 http://a.io/1",
     "http://a.io/1 http://a.io/1 http://a.io/1 http://a.io/1"}

EmailFetches == [1..MaxUrls -> {Plain("html"), Plain("dns")}]

\* An email threat with that body, analyzed, and the run not yet made.
NotMailed(content, fetches) ==
    [content |-> content, fetches |-> fetches, done |-> FALSE,
     threat |-> [NoThreat EXCEPT !.exists = TRUE, !.threat_type = "email",
                                 !.content = content, !.status = "analyzed"],
     results |-> EmptyResults, requested |-> <<>>, posted |-> <<>>]

\* SandboxExecutor.execute on the email threat with no other request in
\* flight: _execute_email returns and the threat is saved, lines 186-196.
\* Neither _execute_email nor _execute_url_simple calls requests.post.
ExecuteEmail ==
    /\ ~probe.done
    /\ \E run \in {EmailRun(probe.content, probe.fetches)} :
         probe' = [probe EXCEPT !.done = TRUE,
                                !.results = [k \in EmailKeys |-> run[k]],
                                !.threat = Executed(@, [k \in EmailKeys |-> run[k]]),
                                !.requested = run.requested,
                                !.posted = <<>>]
    /\ UNCHANGED <<lifeVars, rateVars, parseVars, mediaVars>>

Init == LifeInit /\ RateInit /\ ParseInit /\ MediaInit /\ ProbeInit

-----------------------------------------------------------------------------
(* The specifications.                                                     *)

Next ==
    \E p \in Procs :
        \/ CreateThreat(p) \/ CreateReceived(p) \/ ReanalyzeRequest(p)
        \/ AnalysisStarted(p) \/ AnalysisMark(p) \/ AnalysisSave(p) \/ AnalysisFault(p)
        \/ AnalysisCompleted(p) \/ AnalysisError(p)
        \/ ExecuteRequest(p) \/ SandboxStarted(p) \/ SandboxMark(p) \/ SandboxProbe(p)
        \/ SandboxFault(p) \/ SandboxSave(p) \/ SandboxCompleted(p) \/ SandboxError(p)
        \/ ExecuteSandbox(p) \/ Respond(p)

\* Requests of different workers may overlap.
Spec == Init /\ [][Next]_vars

NextThreat ==
    \E p \in Procs :
        \/ CreateThreat(p) \/ CreateReceived(p) \/ ReanalyzeRequest(p)
        \/ AnalysisStarted(p) \/ AnalysisMark(p) \/ AnalysisSave(p) \/ AnalysisFault(p)
        \/ AnalysisCompleted(p) \/ AnalysisError(p)
        \/ ExecuteRequest(p) \/ SandboxStarted(p) \/ SandboxMark(p) \/ SandboxProbe(p)
        \/ SandboxFault(p) \/ SandboxSave(p) \/ SandboxCompleted(p) \/ SandboxError(p)
        \/ Respond(p)

\* The requests on the threat, which may overlap; no request on the
\* traffic event is made.
SpecThreat == Init /\ [][NextThreat]_vars

\* No other worker is serving a request.
Sole(p) == \A q \in Procs \ {p} : pc[q] = "idle"

SeqCreateThreat(p) == Sole(p) /\ CreateThreat(p)

SeqReanalyzeRequest(p) == Sole(p) /\ ReanalyzeRequest(p)

SeqExecuteRequest(p) == Sole(p) /\ ExecuteRequest(p)

SeqExecuteSandbox(p) == Sole(p) /\ ExecuteSandbox(p)

NextSeq ==
    \E p \in Procs :
        \/ SeqCreateThreat(p) \/ CreateReceived(p) \/ SeqReanalyzeRequest(p)
        \/ AnalysisStarted(p) \/ AnalysisMark(p) \/ AnalysisSave(p) \/ AnalysisFault(p)
        \/ AnalysisCompleted(p) \/ AnalysisError(p)
        \/ SeqExecuteRequest(p) \/ SandboxStarted(p) \/ SandboxMark(p) \/ SandboxProbe(p)
        \/ SandboxFault(p) \/ SandboxSave(p) \/ SandboxCompleted(p) \/ SandboxError(p)
        \/ SeqExecuteSandbox(p) \/ Respond(p)

\* Requests do not overlap: one is accepted when the last one has been
\* answered.
SpecSeq == Init /\ [][NextSeq]_vars

NextRate ==
    \/ \E p \in Procs, key \in Keys : IsAllowedGet(p, key)
    \/ \E p \in Procs : IsAllowedSet(p)
    \/ \E p \in Procs, key \in Keys : GetRemaining(p, key)
    \/ Tick

\* Calls of the rate limiter by concurrent requests.
SpecRate == Init /\ [][NextRate]_vars

\* No other caller is inside the rate limiter.
SoleCaller(p) == \A q \in Procs \ {p} : rpc[q] = "idle"

SeqIsAllowedGet(p, key) == SoleCaller(p) /\ IsAllowedGet(p, key)

SeqGetRemaining(p, key) == SoleCaller(p) /\ GetRemaining(p, key)

NextRateSeq ==
    \/ \E p \in Procs, key \in Keys : SeqIsAllowedGet(p, key)
    \/ \E p \in Procs : IsAllowedSet(p)
    \/ \E p \in Procs, key \in Keys : SeqGetRemaining(p, key)
    \/ Tick

\* Calls of the rate limiter that do not overlap.
SpecRateSeq == Init /\ [][NextRateSeq]_vars

\* The media requests of one user, and the clock.
NextMedia ==
    \/ \E media_type \in MediaType, content \in BOOLEAN, reply \in MediaReplies, fault \in BOOLEAN :
          MediaCreate(media_type, content, reply, fault)
    \/ Tick

SpecMedia == Init /\ [][NextMedia]_vars

NextDetect == DetectThreat

InitDetect ==
    /\ LifeInit /\ RateInit /\ MediaInit /\ ProbeInit
    /\ analysis_text \in {[Silent EXCEPT !.prose = t] : t \in DetectTexts}
    /\ path = "none" /\ surfaced = NotParsed

SpecDetect == InitDetect /\ [][NextDetect]_vars

NextProbe == ExecuteUrl \/ ExecuteUrlFault

InitProbe ==
    /\ LifeInit /\ RateInit /\ ParseInit /\ MediaInit
    /\ probe \in {NotProbed(content, server) :
                     content \in ProbeContents, server \in ProbeServers}

SpecProbe == InitProbe /\ [][NextProbe]_vars

NextEmail == ExecuteEmail

InitEmail ==
    /\ LifeInit /\ RateInit /\ ParseInit /\ MediaInit
    /\ probe \in {NotMailed(content, fetches) :
                     content \in EmailContents, fetches \in EmailFetches}

SpecEmail == InitEmail /\ [][NextEmail]_vars

NextParse == ParseForThreat \/ ParseForMediaText \/ ParseForMediaImage

\* One reply of the model, parsed by one of the analyses.
InitParse ==
    /\ LifeInit /\ RateInit /\ MediaInit /\ ProbeInit
    /\ analysis_text \in {reply \in Texts : WellFormed(reply)}
    /\ path = "none" /\ surfaced = NotParsed

SpecParse == InitParse /\ [][NextParse]_vars

-----------------------------------------------------------------------------
(* Properties of the Threat lifecycle.                                     *)

\* Worker p accepts an execute request for a threat that has been executed.
RepeatedExecute(p) == threat.sandbox_executed /\ ExecuteRequest(p)

\* Worker p accepts an execute_sandbox request for an event that has been
\* executed.
RepeatedExecuteSandbox(p) == event.sandbox_executed /\ ExecuteSandbox(p)

\* C1: an execute request on a threat, or an execute_sandbox request on an
\* event, whose sandbox_executed is true is answered with the conflict
\* response (400) in the step that accepts it: no probe is started, no
\* network request is issued, no timeline event is appended and the row
\* (sandbox_executed, sandbox_results, status and every other column) is
\* unchanged.
C1_RepeatedExecuteConflicts ==
    [][\A p \in Procs :
          (RepeatedExecute(p) \/ RepeatedExecuteSandbox(p)) =>
              /\ resp'[p] = 400 /\ pc'[p] = "idle"
              /\ net' = net /\ timeline' = timeline
              /\ threat' = threat /\ event' = event]_vars

\* An execute request on the executed threat has been answered with the
\* conflict, the event having been executed too.
C1_Witness ==
    /\ threat.sandbox_executed /\ event.sandbox_executed
    /\ \E p \in Procs : op[p] = "execute" /\ resp[p] = 400

Last(events) == events[Len(events)]

\* C2: once SandboxExecutor.execute has run to its last timeline event,
\* sandbox_execution_completed or sandbox_execution_error, sandbox_executed
\* is true.
C2_ExecutedWhateverTheOutcome ==
    (timeline # <<>> /\ Last(timeline) \in {"sandbox_execution_completed",
                                              "sandbox_execution_error"})
        => threat.sandbox_executed

\* C3: in requests that do not overlap, sandbox_executed never goes from
\* true back to false; so it goes from false to true at most once.
C3_ExecutedOnce == [][threat.sandbox_executed => threat'.sandbox_executed]_vars

C3_Witness ==
    /\ threat.sandbox_executed
    /\ \E p \in Procs : op[p] = "reanalyze" /\ resp[p] = 200
    /\ Last(timeline) = "analysis_completed"

\* The positions of a request whose probe has returned.
Probed == {"ex_save", "ex_ok"}

\* C4: of two execute requests that overlap, at most one runs the sandbox:
\* never have both appended sandbox_execution_started and issued the
\* network requests of the probe.
C4_OneSandboxRun ==
    ~ \E p, q \in Procs :
         /\ p # q
         /\ op[p] = "execute" /\ op[q] = "execute"
         /\ pc[p] \in Probed /\ pc[q] \in Probed
         /\ ProbeUsesNetwork(threat.threat_type, threat.content)
         /\ net >= 2

\* The order of the lifecycle: pending, analyzing, executing, then
\* completed or error.
Rank(status) ==
    CASE status = "pending" -> 0
      [] status = "analyzing" -> 1
      [] status = "executing" -> 2
      [] OTHER -> 3

\* A step of a reanalyze request.
ReanalyzeStep == \E p \in Procs : op[p] = "reanalyze" /\ pc[p] # "idle" /\ pc'[p] # pc[p]

\* C5: status never moves to an earlier state of the lifecycle, except in a
\* step of reanalyze.
C5_StatusMovesForward ==
    [][(threat.exists /\ Rank(threat'.status) < Rank(threat.status)) => ReanalyzeStep]_vars

\* C7: when an analysis has succeeded, severity is one of low, medium, high,
\* critical.
C7_SeverityIsAChoice ==
    \A p \in Procs : pc[p] = "an_ok" => threat.severity \in ThreatSeverity

-----------------------------------------------------------------------------
(* Properties of the rate limiter.                                         *)

\* C8: in calls that do not overlap, the calls admitted in one window are at
\* most max_requests and the n-th of them returns remaining = max_requests -
\* n; a call is denied only after max_requests admitted calls, with
\* remaining = 0; and a call made when the window (window_seconds from the
\* call that created the counter) has elapsed is not denied.
C8_QuotaPerWindow ==
    /\ \A k \in Keys : window[k].admitted <= MaxRequestsPerWindow
    /\ last.called =>
          IF last.allowed
          THEN last.remaining = MaxRequestsPerWindow - last.nth
          ELSE last.remaining = 0 /\ last.nth = MaxRequestsPerWindow
    /\ (last.called /\ ~last.allowed) =>
          last.at < window[last.key].created + WindowSeconds

\* C9: the entry of a key expires window_seconds after the call that
\* created it, whatever calls were admitted since.
C9_FixedWindow ==
    \A k \in Keys : Live(k) => cache[k].expires = window[k].created + WindowSeconds

\* C10: after k admitted calls within one window the stored counter is k,
\* in every interleaving of the calls.
C10_NoLostIncrement ==
    \A k \in Keys : Live(k) => cache[k].value = window[k].admitted

\* C10, amended: after k admitted calls within one window, none of which
\* was between its read and its write of the counter while another read it,
\* the stored counter is k.
C10_NoLostIncrementInSerialCalls ==
    \A k \in Keys : (Live(k) /\ window[k].serial) => cache[k].value = window[k].admitted

\* The quota of a window has been admitted in calls that did not overlap,
\* after a window in which calls overlapped.
C10_Witness ==
    \E k \in Keys :
        /\ Live(k) /\ window[k].serial /\ window[k].created > 0
        /\ window[k].admitted = MaxRequestsPerWindow
        /\ cache[k].value = MaxRequestsPerWindow

C12_DenialLeavesRecords ==
    [][(nmedia' = nmedia + 1 /\ mresp'.error = "Rate limit exceeded") => media' = media]_vars

\* C13: SandboxExecutor.execute on a threat that is no url, link or email
\* issues no network request and returns success = true with one
\* observation.
C13_NotApplicableSucceeds ==
    [][\A p \in Procs :
         (pc[p] = "ex_probe" /\ obj[p].threat_type \notin {"url", "link", "email"}
            /\ SandboxProbe(p))
         => /\ net' = net
            /\ results'[p].success
            /\ Len(results'[p].observations) = 1]_vars

\* C14: against a URL whose every response is a 302 with a Location, the
\* redirect loop of _execute_url ends after exactly max_redirects GET
\* requests, with exactly max_redirects entries in the redirects list.
AlwaysRedirects == probe.server.hops >= max_redirects /\ UrlUsesNetwork(probe.content)

C14_RedirectLoopBounded ==
    (probe.done /\ ~probe.raised /\ AlwaysRedirects) =>
        /\ probe.gets = max_redirects
        /\ Len(probe.results.redirects) = max_redirects

C14_Witness ==
    /\ probe.done /\ ~probe.raised /\ probe.server.hops > max_redirects /\ UrlUsesNetwork(probe.content)
    /\ probe.gets = max_redirects
    /\ Len(probe.results.redirects) = max_redirects

\* C15: when the fetch of the page fails (DNS resolution, connection
\* refused, timeout, another request error), the run returns success = true
\* with an observation of the failure, for DNS the one of a possible fake
\* domain, and the threat ends in status completed.
FetchFailed ==
    /\ probe.done /\ probe.gets > 0
    /\ probe.server.hops < max_redirects
    /\ probe.server.final \in {"dns", "refused", "timeout", "error"}

Observed(observation) ==
    \E i \in DOMAIN probe.results.observations : probe.results.observations[i] = observation

C15_FetchFailureIsSuccess ==
    FetchFailed =>
        /\ probe.results.success
        /\ probe.threat.status = "completed"
        /\ probe.threat.sandbox_results = Some(probe.results)
        /\ CASE probe.server.final = "dns" ->
                  Observed("DNS resolution failed") /\ Observed("This could indicate: fake domain")
             [] probe.server.final = "refused" -> Observed("Connection refused")
             [] probe.server.final = "timeout" ->
                  Observed("URL did not respond within timeout period")
             [] OTHER -> Observed("Request error")

C15_Witness ==
    /\ FetchFailed /\ probe.server.final = "dns" /\ probe.server.hops = 1
    /\ probe.results.success /\ probe.threat.status = "completed"
    /\ Observed("This could indicate: fake domain")

\* C16 as stated: every named hidden field of a submitted form is
\* submitted with its declared value, whatever its name is.
CategoryKeywords ==
    {"email", "username", "user", "login", "password", "pwd", "pass",
     "card", "credit", "cvv", "cvc", "phone", "mobile", "tel"}

Declared(input_field) == IF input_field.value = None THEN "" ELSE input_field.value[1]

\* The one form of the page was submitted.
SubmittedOne == probe.done /\ Len(probe.server.forms) = 1 /\ Len(probe.posted) = 1

HiddenNamed(input_field) == input_field.type = "hidden" /\ input_field.name # ""

C16_HiddenKeepsValue ==
    SubmittedOne =>
        \A i \in DOMAIN probe.server.forms[1].fields :
            LET input_field == probe.server.forms[1].fields[i] IN
            HiddenNamed(input_field) =>
                probe.posted[1][input_field.name] = Declared(input_field)

\* C16, amended: a named hidden field whose name holds no category keyword,
\* and which is the last field of its name, is submitted with its declared
\* value (the empty string when it declares none).
C16_HiddenKeepsValueUnlessCategory ==
    SubmittedOne =>
        \A i \in DOMAIN probe.server.forms[1].fields :
            LET fields == probe.server.forms[1].fields
                input_field == fields[i]
            IN (/\ HiddenNamed(input_field)
                /\ ~ContainsAny(Lower(input_field.name), CategoryKeywords)
                /\ \A j \in DOMAIN fields : j > i => fields[j].name # input_field.name)
               => probe.posted[1][input_field.name] = Declared(input_field)

C16_Witness ==
    /\ SubmittedOne
    /\ \E i \in DOMAIN probe.server.forms[1].fields :
         LET input_field == probe.server.forms[1].fields[i] IN
         /\ HiddenNamed(input_field) /\ input_field.name = "cc_number"
         /\ input_field.value = Some("4111")
         /\ probe.posted[1][input_field.name] = "4111"

\* C17: a threat is in status executing only if its type is url, link or
\* email.
C17_ExecutingOnlyProbeable ==
    (threat.exists /\ threat.status = "executing")
        => threat.threat_type \in {"url", "link", "email"}

\* C21: with requests that do not overlap, every analysis_started of the
\* timeline is followed at once by exactly one of analysis_completed and
\* analysis_error (or the call is still running), each of these two follows
\* an analysis_started, and the status is analyzing only while the call to
\* the model is outstanding.
InAnalysis(p) == pc[p] \in {"an_mark", "an_call", "an_ok", "an_err"}

AnalysisEnds == {"analysis_completed", "analysis_error"}

C21_AnalyzeEndsInCompletedOrError ==
    /\ \A i \in DOMAIN timeline :
         /\ timeline[i] = "analysis_started" =>
              IF i = Len(timeline) THEN \E p \in Procs : InAnalysis(p)
              ELSE timeline[i + 1] \in AnalysisEnds
         /\ timeline[i] \in AnalysisEnds => (i > 1 /\ timeline[i - 1] = "analysis_started")
    /\ threat.status = "analyzing" => \E p \in Procs : pc[p] = "an_call"
    /\ \A p \in Procs :
         /\ pc[p] = "an_ok" => threat.status = "completed"
         /\ pc[p] = "an_err" => threat.status = "error"

C21_Witness ==
    /\ Len(timeline) >= 2
    /\ timeline[Len(timeline)] = "analysis_error"
    /\ timeline[Len(timeline) - 1] = "analysis_started"
    /\ threat.status = "error"
    /\ \A p \in Procs : ~InAnalysis(p)

\* C22: when the analysis of a create request has failed, the threat has
\* status error and no later step of that request changes the status.
C22_AnalysisErrorStays ==
    [][\A p \in Procs :
         (/\ op[p] = "create" /\ pc[p] \notin {"idle", "an_call"}
          /\ threat.status = "error"
          /\ \E i \in DOMAIN timeline : timeline[i] = "analysis_error")
         => threat'.status = "error"]_vars

\* C23: every status transition of the threat, its creation included, comes
\* with exactly one timeline event: when no request is in progress the
\* timeline holds as many events as there were transitions, and within a
\* request the two numbers differ by one at most.
Quiet == \A p \in Procs : pc[p] = "idle"

SubmissionFailed ==
    /\ probe.done /\ ~probe.raised
    /\ Len(probe.server.forms) = 1 /\ Len(probe.posted) = 1
    /\ probe.server.forms[1].submit = "fail"

C26_FailuresAreObserved ==
    SubmissionFailed =>
        /\ Observed("Error submitting form") \/ Observed("Failed to submit form")
        /\ Observed("Total redirects followed")

\* C27: content without an http or https scheme that neither starts with
\* www. nor looks like a bare domain (another scheme such as ftp:// included)
\* is rejected: success = false, an observation, no network request.
BareDomain(url) == ~Contains(url, "://") /\ Contains(url, ".") /\ ~StartsWith(url, "/")

Unusable(content) ==
    LET url == Strip(content) IN
    ~HasHttpScheme(url) /\ ~StartsWith(url, "www.") /\ ~BareDomain(url)

C27_UnusableUrlRejected ==
    (probe.done /\ ~probe.raised /\ Unusable(probe.content)) =>
        /\ ~probe.results.success
        /\ probe.results.observations # <<>>
        /\ probe.gets = 0

\* C28: a field without a name that matches no category is part of the
\* submitted payload with the value test_value, and a named one that matches
\* no category with test_<fieldname>.
PlainField(input_field) ==
    /\ input_field.type \notin {"hidden", "checkbox", "radio"}
    /\ ~ContainsAny(Lower(input_field.name), CategoryKeywords)

\* The page was fetched and its one form, which has an action, was found.
FoundOne ==
    /\ probe.done /\ ~probe.raised
    /\ Len(probe.server.forms) = 1 /\ Len(probe.results.forms_found) = 1
    /\ probe.server.forms[1].action # ""

C28_PlaceholderValues ==
    FoundOne =>
        \A i \in DOMAIN probe.server.forms[1].fields :
            LET input_field == probe.server.forms[1].fields[i] IN
            PlainField(input_field) =>
                /\ Len(probe.posted) = 1
                /\ IF input_field.name = ""
                   THEN \E n \in DOMAIN probe.posted[1] : probe.posted[1][n] = "test_value"
                   ELSE /\ input_field.name \in DOMAIN probe.posted[1]
                        /\ probe.posted[1][input_field.name] = "test_" \o input_field.name

\* C29: for the form found on the fetched page exactly one submission is
\* issued, also when the form has an empty or missing action.  (The form of
\* the claim's case has a named text field, so that there is a payload.)
FoundOneWithText ==
    /\ probe.done /\ ~probe.raised
    /\ Len(probe.server.forms) = 1 /\ Len(probe.results.forms_found) = 1
    /\ \E i \in DOMAIN probe.server.forms[1].fields :
         /\ probe.server.forms[1].fields[i].name # ""
         /\ probe.server.forms[1].fields[i].type = "text"

C29_EveryFormSubmitted == FoundOneWithText => Len(probe.posted) = 1

\* C30: when the response of a form submission is a redirect to another
\* host than the one of the page, the result has a CRITICAL observation,
\* whatever the Content-Type of that response is.
RedirectedAway ==
    /\ probe.done /\ ~probe.raised
    /\ Len(probe.server.forms) = 1 /\ Len(probe.posted) = 1
    /\ probe.server.forms[1].submit \in {"away", "away_html"}

C30_OffDomainIsCritical ==
    RedirectedAway => Observed("CRITICAL: Form redirected to different domain")

\* How often the observation stands in the results of the run.
Times(observation) ==
    Cardinality({i \in DOMAIN probe.results.observations :
                    probe.results.observations[i] = observation})

\* The run has fetched an HTML page.
FetchedPage ==
    /\ probe.done /\ ~probe.raised /\ UrlUsesNetwork(probe.content)
    /\ probe.server.final = "html" /\ probe.server.hops < max_redirects

\* C31: the look for suspicious content runs once for every HTML page that
\* is fetched, whatever its forms: each of the four signatures that matches
\* the text of the page gives exactly one observation, also on a page
\* without forms and on a page with several forms, and a signature that
\* does not match gives none.
C31_ScanOncePerPage ==
    FetchedPage =>
        \A k \in DOMAIN suspicious_patterns :
            Times(suspicious_patterns[k]) =
                IF Search(suspicious_patterns[k], probe.server.text) THEN 1 ELSE 0

\* C32: for an email the probe requests the first 3 URLs of the body, in
\* their order of appearance, one request for each, so at most 3 in all
\* however many URLs the body holds, and it submits no form.
C32_EmailProbesFirstThree ==
    probe.done =>
        LET urls == FindUrls(probe.content) IN
        /\ Len(probe.requested) <= 3
        /\ Len(probe.requested) = IF Len(urls) < 3 THEN Len(urls) ELSE 3
        /\ \A i \in DOMAIN probe.requested : probe.requested[i] = urls[i]
        /\ probe.posted = <<>>

C32_Witness ==
    /\ probe.done
    /\ Len(FindUrls(probe.content)) > 3
    /\ probe.requested = <<"http://e.io/5", "http://d.io/4", "http://c.io/3">>

\* The columns an analysis writes, and the columns a sandbox run writes.
AnalysisPart(t) ==
    <<t.ai_analysis, t.ai_explanation, t.recommendations, t.risk_score, t.severity,
      t.analyzed_at>>

SandboxPart(t) == <<t.sandbox_executed, t.sandbox_results, t.actions_taken, t.observations>>

\* A save of the reanalyze request of worker p: the step of AnalysisMark,
\* AnalysisSave or AnalysisFault.
ReanalyzeSaves(p) ==
    op[p] = "reanalyze" /\ pc[p] \in {"an_mark", "an_call"} /\ pc'[p] # pc[p]

\* A step of the execute request of worker p within executor.execute, the
\* saves of SandboxMark, SandboxSave and SandboxFault among them.
ExecuteSaves(p) ==
    op[p] = "execute" /\ pc[p] \in {"ex_mark", "ex_probe", "ex_save"} /\ pc'[p] # pc[p]

\* C33: when a reanalyze and an execute of the same threat overlap, neither
\* loses what the other has written: no save of the reanalyze request
\* changes the stored sandbox_executed, sandbox_results, actions_taken and
\* observations, and no save of the execute request changes the stored
\* analysis fields, so that when both have finished the row holds the
\* result of the run and the result of the reanalysis.
C33_NoLostWrites ==
    [][\A p \in Procs :
          /\ ReanalyzeSaves(p) => SandboxPart(threat') = SandboxPart(threat)
          /\ ExecuteSaves(p) => AnalysisPart(threat') = AnalysisPart(threat)]_vars

\* A step of the reanalyze request of worker p.
ReanalyzeMoves(p) == op[p] = "reanalyze" /\ pc[p] # "idle" /\ pc'[p] # pc[p]

\* C34: reanalyze is accepted whatever the status of the threat, and it
\* changes the analysis part only: the request starts an analysis in the
\* step that accepts it, and after every save of the request the stored
\* sandbox_executed, sandbox_results, actions_taken and observations are
\* the ones the row had when the request was accepted.
C34_ReanalyzeKeepsSandboxPart ==
    [][\A p \in Procs :
          /\ ReanalyzeRequest(p) =>
                /\ pc'[p] = "an_start" /\ threat' = threat
                /\ SandboxPart(obj'[p]) = SandboxPart(threat)
          /\ (ReanalyzeMoves(p) /\ pc'[p] # "idle") =>
                SandboxPart(obj'[p]) = SandboxPart(obj[p])
          /\ ReanalyzeSaves(p) => SandboxPart(threat') = SandboxPart(obj[p])]_vars

\* A reanalyze request has saved its analysis while an execute request is
\* at work on the threat, which was not executed when either began.
C34_Witness ==
    \E p, q \in Procs :
        /\ op[p] = "reanalyze" /\ pc[p] = "an_ok"
        /\ op[q] = "execute" /\ pc[q] \in {"ex_probe", "ex_save"}
        /\ threat.status = "completed" /\ ~threat.sandbox_executed

\* C35: the counter stored for a key never exceeds max_requests, whatever
\* the interleaving of the is_allowed calls, and what get_remaining and
\* is_allowed return as remaining lies between 0 and max_requests.
C35_CounterWithinQuota ==
    /\ \A key \in Keys : cache[key].value \in 0..MaxRequestsPerWindow
    /\ seen.remaining \in 0..MaxRequestsPerWindow
    /\ last.remaining \in 0..MaxRequestsPerWindow

\* Calls on a key have overlapped, its counter is at max_requests and
\* get_remaining has returned 0 for it.
C35_Witness ==
    \E key \in Keys :
        /\ ~window[key].serial
        /\ Live(key) /\ cache[key].value = MaxRequestsPerWindow
        /\ seen.key = key /\ seen.remaining = 0

\* C36: a denied is_allowed call and every get_remaining call leave the
\* counter and the expiry of every key as they are, and an is_allowed call
\* changes the counter and the expiry of no key but its own.
C36_LimiterFrame ==
    [][\A p \in Procs :
          /\ \A key \in Keys :
                /\ (Exhausted(CacheGet(key)) /\ IsAllowedGet(p, key)) => cache' = cache
                /\ GetRemaining(p, key) => cache' = cache
          /\ IsAllowedSet(p) =>
                \A key \in Keys \ {rkey[p]} : cache'[key] = cache[key]]_vars

\* A call on a key has been denied after time has passed since the entry
\* was written, get_remaining has answered for that key, and the other key
\* has a live counter of its own.
C36_Witness ==
    /\ last.called /\ ~last.allowed
    /\ Live(last.key) /\ cache[last.key].expires < now + WindowSeconds
    /\ seen.key = last.key /\ seen.remaining = 0
    /\ \E key \in Keys \ {last.key} : Live(key) /\ cache[key].value = 1

\* Worker p is in an analysis whose model call has raised.
AnalysisFailing(p) == pc[p] = "an_call" /\ pc'[p] = "an_err"

\* C37: when analyze fails because the model call raises, only the status
\* and the timeline change: the save of the except branch leaves risk_score,
\* severity, ai_analysis, ai_explanation, recommendations and analyzed_at,
\* and every other column but status, as they were before the call, as
\* does the save that marks the threat as analyzing, and the step after it
\* appends analysis_error and writes nothing to the row.
C37_FailedAnalysisKeepsFields ==
    [][\A p \in Procs :
          /\ (pc[p] = "an_mark" /\ pc'[p] = "an_call") =>
                threat' = [threat EXCEPT !.status = "analyzing"]
          /\ AnalysisFailing(p) =>
                /\ threat' = [threat EXCEPT !.status = "error"]
                /\ AnalysisPart(threat') = AnalysisPart(threat)
                /\ timeline' = timeline
          /\ (pc[p] = "an_err" /\ pc'[p] # "an_err") =>
                /\ threat' = threat
                /\ timeline' = Append(timeline, "analysis_error")]_vars

\* A reanalysis of a threat that has been analyzed has failed: the row
\* holds the earlier analysis and status error.
C37_Witness ==
    /\ \E p \in Procs : op[p] = "reanalyze" /\ pc[p] = "idle"
    /\ Quiet
    /\ threat.status = "error" /\ timeline[Len(timeline)] = "analysis_error"
    /\ threat.ai_analysis # "" /\ threat.risk_score # None /\ threat.analyzed_at # None

\* The forms of the page whose submission was answered, in their order:
\* each of them has one 'Form submission status' observation.
Answered(f) == Submits(f) /\ f.submit # "fail"

\* The form that the observation at position j was made for: the one of
\* the last 'Form submission status' before it.
FormOf(j) ==
    SelectSeq(probe.server.forms, Answered)
        [Cardinality({i \in 1..(j - 1) :
                         probe.results.observations[i] = "Form submission status"})]

\* C38: a CRITICAL different-domain observation is made for a form only
\* when the response to the submission of that form was a redirect to
\* another host, also on a page that was reached through redirects and
\* after a form whose submission was redirected.
C38_CriticalOnlyForOwnRedirect ==
    FetchedPage =>
        \A j \in DOMAIN probe.results.observations :
            probe.results.observations[j] = "CRITICAL: Form redirected to different domain"
                => FormOf(j).submit \in {"away", "away_html"}

\* The redirect loop has ended because a response that is no redirect
\* arrived.
LoopEndedByResponse ==
    /\ probe.done /\ ~probe.raised /\ UrlUsesNetwork(probe.content)
    /\ probe.server.hops < max_redirects /\ probe.server.final \in {"html", "other"}

-----------------------------------------------------------------------------
(* Properties of the parsers.                                              *)

\* C6: the risk score that an analysis returns is a number in 0..100, on
\* every path: ThreatAnalyzer with JSON, ThreatAnalyzer with the regex
\* fallback, media text and media image.
C6_RiskScoreClamped ==
    (path # "none" /\ surfaced.success) =>
        surfaced.risk_score.t = "num" /\ InRange(surfaced.risk_score.n)

\* C18: when the reply holds a JSON object with a risk_score (a number in
\* 0..100) and an is_threat, the media analysis surfaces exactly these two
\* values, whatever the heuristics find in the text.
C18_JsonTakesPrecedence ==
    (/\ path \in {"media_text", "media_image"}
     /\ analysis_text.json = "object"
     /\ analysis_text.risk_score.t = "num" /\ InRange(analysis_text.risk_score.n)
     /\ analysis_text.is_threat.t = "bool")
    => /\ surfaced.success
       /\ surfaced.risk_score = analysis_text.risk_score
       /\ surfaced.is_threat = analysis_text.is_threat

\* C19: the threat heuristic returns false on a text with a safe phrase,
\* however many threat keywords it holds; without a safe phrase it returns
\* true if and only if at least 2 distinct keywords are present.
HasSafePhrase == \E phrase \in safe_indicators : Contains(Lower(analysis_text.prose), phrase)

KeywordsPresent == {keyword \in threat_indicators : Contains(Lower(analysis_text.prose), keyword)}

C19_SafePhraseWins ==
    path = "detect" =>
        /\ HasSafePhrase => surfaced.is_threat = JBool(FALSE)
        /\ ~HasSafePhrase => (surfaced.is_threat = JBool(TRUE) <=> Cardinality(KeywordsPresent) >= 2)

C19_Witness ==
    /\ path = "detect" /\ HasSafePhrase /\ Cardinality(KeywordsPresent) >= 3
    /\ surfaced.is_threat = JBool(FALSE)

\* C20: whatever the reply of the model is, the analysis that parses it
\* returns success.
C20_ExtractionNeverFails ==
    path \in {"threat_json", "threat_regex", "media_text", "media_image"} => surfaced.success

\* C24: the image analysis returns, clamped to 0..100, the risk_score of the
\* JSON object when the reply has one, else the score extracted from the
\* text when there is one, else 75 or 25 as the threat heuristic says.
HasJsonScore ==
    analysis_text.json = "object" /\ analysis_text.risk_score.t \notin {"absent", "null"}

ResolvedScore ==
    IF HasJsonScore THEN IntOf(analysis_text.risk_score)
    ELSE IF _extract_risk_score(analysis_text) # None THEN _extract_risk_score(analysis_text)[1]
    ELSE IF _detect_threat_in_text(AnalysisText(analysis_text)) THEN 75 ELSE 25

C24_ImageScoreResolution ==
    path = "media_image" =>
        /\ surfaced.success
        /\ ~(HasJsonScore /\ IntRaises(analysis_text.risk_score))
        /\ surfaced.risk_score = JNum(Clamp(ResolvedScore))

\* The same on the replies whose JSON risk_score int() accepts: it holds.
C24_HoldsOnNumbers ==
    (path = "media_image" /\ ~(HasJsonScore /\ IntRaises(analysis_text.risk_score))) =>
        /\ surfaced.success
        /\ surfaced.risk_score = JNum(Clamp(ResolvedScore))

\* C25: on the text path and on the image path, a reply with at least 2
\* distinct threat keywords and no safe phrase is surfaced with
\* is_threat = true.
ThreateningReply ==
    LET text_lower == Lower(AnalysisText(analysis_text)) IN
    /\ ~\E phrase \in safe_indicators : Contains(text_lower, phrase)
    /\ Cardinality({keyword \in threat_indicators : Contains(text_lower, keyword)}) >= 2

C25_KeywordsSurfaceThreat ==
    (path \in {"media_text", "media_image"} /\ surfaced.success /\ ThreateningReply)
        => surfaced.is_threat = JBool(TRUE)

=============================================================================
